---- MODULE Spec2Model ----
(***************************************************************************)
(* Model of the Sisense MCP server: the Upstream Client (SisenseService),  *)
(* the Input Validator (zod schemas of utils/validation.ts) and the        *)
(* Dispatcher (SisenseMCPServer.callTool).                                 *)
(*                                                                         *)
(* JavaScript strings are TLA+ strings (Len, SubSeq and \o act on them);   *)
(* every other JavaScript value is a record with the same five fields, so  *)
(* that values of different types can be compared.                         *)
(***************************************************************************)
EXTENDS Integers, Sequences, FiniteSets, TLC

(***************************************************************************)
(* Bounds of the model.                                                    *)
(***************************************************************************)
\* number of caller requests that may be in flight at the same time
MaxInFlight == 2
\* the counter of issued network requests saturates here
MaxFetches == 2
\* number of signals the process handles before it has exited
MaxSignals == 3

(***************************************************************************)
(* JavaScript values.                                                      *)
(***************************************************************************)
JSVal(t, n, s, k, v) == [t |-> t, n |-> n, s |-> s, k |-> k, v |-> v]
Undefined == JSVal("undefined", 0, "", <<>>, <<>>)
Null == JSVal("null", 0, "", <<>>, <<>>)
Bool(b) == JSVal("boolean", IF b THEN 1 ELSE 0, "", <<>>, <<>>)
Num(n) == JSVal("number", n, "", <<>>, <<>>)
Str(s) == JSVal("string", 0, s, <<>>, <<>>)
Arr(v) == JSVal("array", 0, "", <<>>, v)
Obj(k, v) == JSVal("object", 0, "", k, v)
\* a function, a symbol and the bigint n
Fn == JSVal("function", 0, "", <<>>, <<>>)
Sym == JSVal("symbol", 0, "", <<>>, <<>>)
BigInt(n) == JSVal("bigint", n, "", <<>>, <<>>)
\* a reference to an object that encloses it: the member that closes a cycle
SeenRef == JSVal("seen", 0, "", <<>>, <<>>)
\* an object with a toJSON method that returns result
WithToJSON(result) == JSVal("tojson", 0, "", <<>>, <<result>>)

\* typeof x
TypeOf(x) ==
  CASE x.t = "undefined" -> "undefined"
    [] x.t = "boolean" -> "boolean"
    [] x.t = "number" -> "number"
    [] x.t = "string" -> "string"
    [] x.t = "function" -> "function"
    [] x.t = "symbol" -> "symbol"
    [] x.t = "bigint" -> "bigint"
    [] OTHER -> "object"

\* Boolean(x): undefined, null, false, 0 and "" are falsy
Truthy(x) ==
  CASE x.t = "undefined" -> FALSE
    [] x.t = "null" -> FALSE
    [] x.t = "boolean" -> x.n = 1
    [] x.t = "number" -> x.n # 0
    [] x.t = "bigint" -> x.n # 0
    [] x.t = "string" -> x.s # ""
    [] OTHER -> TRUE

\* obj[key]: the value of the last member with that key, undefined if none
GetProp(obj, key) ==
  IF obj.t = "object" /\ \E i \in 1..Len(obj.k) : obj.k[i] = key
  THEN obj.v[CHOOSE i \in 1..Len(obj.k) :
               obj.k[i] = key /\ \A j \in (i+1)..Len(obj.k) : obj.k[j] # key]
  ELSE Undefined

HasProp(obj, key) == obj.t = "object" /\ \E i \in 1..Len(obj.k) : obj.k[i] = key

(***************************************************************************)
(* Strings.                                                                *)
(***************************************************************************)
\* s.charAt(i - 1): the empty string outside the string
Ch(s, i) == IF 1 <= i /\ i <= Len(s) THEN SubSeq(s, i, i) ELSE ""

\* s.substring(i - 1, j): clipped to the string
Slice(s, i, j) ==
  LET a == IF i < 1 THEN 1 ELSE i
      b == IF j > Len(s) THEN Len(s) ELSE j
  IN IF a > b THEN "" ELSE SubSeq(s, a, b)

\* s.includes(sub)
Includes(s, sub) ==
  \E i \in 1..(Len(s) + 1) :
    i + Len(sub) - 1 <= Len(s) /\ Slice(s, i, i + Len(sub) - 1) = sub

Digits == <<"0", "1", "2", "3", "4", "5", "6", "7", "8", "9">>
IsDigit(c) == \E d \in 1..10 : Digits[d] = c
DigitVal(c) == (CHOOSE d \in 1..10 : Digits[d] = c) - 1

\* String(n) for an integer n
RECURSIVE NatToString(_)
NatToString(n) ==
  IF n < 10 THEN Digits[n + 1] ELSE NatToString(n \div 10) \o Digits[(n % 10) + 1]

NumToString(n) == IF n < 0 THEN "-" \o NatToString(0 - n) ELSE NatToString(n)

\* s.startsWith(prefix)
StartsWith(s, prefix) == Slice(s, 1, Len(prefix)) = prefix

\* s.split(sep) for a separator of one character; the piece being read starts at
\* st and the scan is at i
RECURSIVE SplitFrom(_, _, _, _)
SplitFrom(s, sep, st, i) ==
  IF i > Len(s) THEN <<Slice(s, st, Len(s))>>
  ELSE IF Ch(s, i) = sep THEN <<Slice(s, st, i - 1)>> \o SplitFrom(s, sep, i + 1, i + 1)
  ELSE SplitFrom(s, sep, st, i + 1)

Split(s, sep) == SplitFrom(s, sep, 1, 1)

(***************************************************************************)
(* JSON.parse, on the grammar: null, true, false, integers, strings        *)
(* without escapes, arrays, objects, spaces between tokens.  A parse       *)
(* result is [ok, val, pos]; pos is the index after the value.             *)
(***************************************************************************)
ParseFail == [ok |-> FALSE, val |-> Undefined, pos |-> 0]
ParseOk(val, pos) == [ok |-> TRUE, val |-> val, pos |-> pos]

RECURSIVE SkipWs(_, _)
SkipWs(s, i) == IF i <= Len(s) /\ Ch(s, i) \in {" ", "\n"} THEN SkipWs(s, i + 1) ELSE i

\* index after the run of digits that starts at i
RECURSIVE DigitsEnd(_, _)
DigitsEnd(s, i) == IF i <= Len(s) /\ IsDigit(Ch(s, i)) THEN DigitsEnd(s, i + 1) ELSE i

RECURSIVE DigitsValue(_, _, _, _)
DigitsValue(s, i, j, acc) ==
  IF i >= j THEN acc ELSE DigitsValue(s, i + 1, j, acc * 10 + DigitVal(Ch(s, i)))

\* index of the closing quote of the string whose first character is at i, 0 if none
RECURSIVE StringEnd(_, _)
StringEnd(s, i) ==
  IF i > Len(s) THEN 0
  ELSE IF Ch(s, i) = "\"" THEN i
  ELSE IF Ch(s, i) = "\\" THEN 0
  ELSE StringEnd(s, i + 1)

\* the number whose digits are s[st..en-1]; neg: a minus sign precedes them
NumberFrom(s, neg, st, en) ==
  IF en = st THEN ParseFail
  ELSE IF Ch(s, st) = "0" /\ en > st + 1 THEN ParseFail
  ELSE ParseOk(Num(IF neg THEN 0 - DigitsValue(s, st, en, 0)
                          ELSE DigitsValue(s, st, en, 0)), en)

ParseNumber(s, i) ==
  IF Ch(s, i) = "-" THEN NumberFrom(s, TRUE, i + 1, DigitsEnd(s, i + 1))
  ELSE NumberFrom(s, FALSE, i, DigitsEnd(s, i))

\* the string between the quote at i and the closing quote at en
StringFrom(s, i, en) ==
  IF en = 0 THEN ParseFail ELSE ParseOk(Str(Slice(s, i + 1, en - 1)), en + 1)

ParseString(s, i) == StringFrom(s, i, StringEnd(s, i + 1))

RECURSIVE ParseValueAt(_, _, _), ParseElements(_, _, _), ElementsAfter(_, _, _),
          ParseMembers(_, _, _, _), MemberValue(_, _, _, _),
          MembersAfter(_, _, _, _, _)

\* the value that starts at the first non-space character at or after i0
ParseValue(s, i0) == ParseValueAt(s, SkipWs(s, i0), Ch(s, SkipWs(s, i0)))

\* the value that starts at i, whose character is c
ParseValueAt(s, i, c) ==
  IF i > Len(s) THEN ParseFail
  ELSE IF Slice(s, i, i + 3) = "null" THEN ParseOk(Null, i + 4)
  ELSE IF Slice(s, i, i + 3) = "true" THEN ParseOk(Bool(TRUE), i + 4)
  ELSE IF Slice(s, i, i + 4) = "false" THEN ParseOk(Bool(FALSE), i + 5)
  ELSE IF c = "\"" THEN ParseString(s, i)
  ELSE IF c = "-" \/ IsDigit(c) THEN ParseNumber(s, i)
  ELSE IF c = "[" THEN
    (IF Ch(s, SkipWs(s, i + 1)) = "]"
     THEN ParseOk(Arr(<<>>), SkipWs(s, i + 1) + 1)
     ELSE ParseElements(s, i + 1, <<>>))
  ELSE IF c = "{" THEN
    (IF Ch(s, SkipWs(s, i + 1)) = "}"
     THEN ParseOk(Obj(<<>>, <<>>), SkipWs(s, i + 1) + 1)
     ELSE ParseMembers(s, i + 1, <<>>, <<>>))
  ELSE ParseFail

\* the elements of an array, from the one at i; acc holds the ones before it
ParseElements(s, i, acc) ==
  ElementsAfter(s, ParseValueAt(s, SkipWs(s, i), Ch(s, SkipWs(s, i))), acc)

\* the rest of an array after its element e
ElementsAfter(s, e, acc) ==
  IF ~e.ok THEN ParseFail
  ELSE IF Ch(s, SkipWs(s, e.pos)) = ","
    THEN ParseElements(s, SkipWs(s, e.pos) + 1, Append(acc, e.val))
  ELSE IF Ch(s, SkipWs(s, e.pos)) = "]"
    THEN ParseOk(Arr(Append(acc, e.val)), SkipWs(s, e.pos) + 1)
  ELSE ParseFail

\* the members of an object, from the one at i0
ParseMembers(s, i0, ks, vs) ==
  IF Ch(s, SkipWs(s, i0)) = "\""
  THEN MemberValue(s, ParseString(s, SkipWs(s, i0)), ks, vs)
  ELSE ParseFail

\* the member with the key, from the colon on
MemberValue(s, key, ks, vs) ==
  IF key.ok /\ Ch(s, SkipWs(s, key.pos)) = ":"
  THEN MembersAfter(s, key.val.s,
                    ParseValueAt(s, SkipWs(s, SkipWs(s, key.pos) + 1),
                                 Ch(s, SkipWs(s, SkipWs(s, key.pos) + 1))),
                    ks, vs)
  ELSE ParseFail

\* the rest of an object after the member key: e
MembersAfter(s, key, e, ks, vs) ==
  IF ~e.ok THEN ParseFail
  ELSE IF Ch(s, SkipWs(s, e.pos)) = ","
    THEN ParseMembers(s, SkipWs(s, e.pos) + 1, Append(ks, key), Append(vs, e.val))
  ELSE IF Ch(s, SkipWs(s, e.pos)) = "}"
    THEN ParseOk(Obj(Append(ks, key), Append(vs, e.val)), SkipWs(s, e.pos) + 1)
  ELSE ParseFail

\* the value r if nothing but spaces follows it
WholeText(text, r) ==
  IF r.ok /\ SkipWs(text, r.pos) = Len(text) + 1 THEN r ELSE ParseFail

\* JSON.parse(text): ok = FALSE stands for the SyntaxError it throws
JSONParse(text) == WholeText(text, ParseValue(text, 1))

(***************************************************************************)
(* JSON.stringify(value, null, space).  undefined, as a value of its own   *)
(* or as the replacer's result, is left out of objects and is null in      *)
(* arrays; the model's strings need no escaping.                           *)
(***************************************************************************)
RECURSIVE Spaces(_)
Spaces(n) == IF n <= 0 THEN "" ELSE " " \o Spaces(n - 1)

RECURSIVE JoinStrings(_, _)
JoinStrings(parts, sep) ==
  IF Len(parts) = 0 THEN ""
  ELSE IF Len(parts) = 1 THEN parts[1]
  ELSE parts[1] \o sep \o JoinStrings(Tail(parts), sep)

\* the value JSON.stringify serializes for x: what toJSON returns if x has one
AfterToJSON(x) == IF x.t = "tojson" THEN x.v[1] ELSE x

\* JSON.stringify has no text for x: the member of an object is left out, the
\* element of an array is null
Omitted(x) == AfterToJSON(x).t \in {"undefined", "function", "symbol"}

\* JSON.stringify throws a TypeError on x: it reaches a bigint
RECURSIVE StringifyThrows(_)
StringifyThrows(x) ==
  \/ x.t = "bigint"
  \/ x.t \in {"array", "object", "tojson"} /\ ~Omitted(x)
       /\ \E i \in 1..Len(x.v) : StringifyThrows(x.v[i])

\* the text of x under the replacer of safeStringify, which returns
\* '[Circular Reference]' for an object it has seen; x holds no bigint
RECURSIVE SerializeValue(_, _, _)
SerializeValue(x, space, depth) ==
  LET inner == Spaces(space * (depth + 1))
      outer == Spaces(space * depth)
      sep == IF space > 0 THEN ",\n" \o inner ELSE ","
      open == IF space > 0 THEN "\n" \o inner ELSE ""
      close == IF space > 0 THEN "\n" \o outer ELSE ""
      colon == IF space > 0 THEN ": " ELSE ":"
      kept == SelectSeq([i \in 1..Len(x.v) |-> i],
                        LAMBDA i : ~Omitted(x.v[i])
                                   /\ \A j \in (i + 1)..Len(x.k) : x.k[j] # x.k[i])
  IN CASE x.t = "null" -> "null"
       [] x.t \in {"undefined", "function", "symbol"} -> "null"
       [] x.t = "tojson" ->
            (IF Omitted(x) THEN "null" ELSE SerializeValue(x.v[1], space, depth))
       [] x.t = "seen" -> "\"[Circular Reference]\""
       [] x.t = "boolean" -> (IF x.n = 1 THEN "true" ELSE "false")
       [] x.t = "number" -> NumToString(x.n)
       [] x.t = "string" -> "\"" \o x.s \o "\""
       [] x.t = "array" ->
            (IF Len(x.v) = 0 THEN "[]"
             ELSE "[" \o open
                  \o JoinStrings([i \in 1..Len(x.v) |->
                                    SerializeValue(x.v[i], space, depth + 1)], sep)
                  \o close \o "]")
       [] OTHER ->
            (IF Len(kept) = 0 THEN "{}"
             ELSE "{" \o open
                  \o JoinStrings([i \in 1..Len(kept) |->
                                    "\"" \o x.k[kept[i]] \o "\"" \o colon
                                    \o SerializeValue(x.v[kept[i]], space, depth + 1)], sep)
                  \o close \o "}")

\* JSON.stringify(x, null, space) for a value other than undefined
JSONStringify(x, space) == SerializeValue(x, space, 0)

\* `${x}`: String(x); an array is its elements joined by commas, null and
\* undefined elements being empty
RECURSIVE JsToString(_)
JsToString(x) ==
  CASE x.t = "undefined" -> "undefined"
    [] x.t = "null" -> "null"
    [] x.t = "boolean" -> (IF x.n = 1 THEN "true" ELSE "false")
    [] x.t = "number" -> NumToString(x.n)
    [] x.t = "string" -> x.s
    [] x.t = "array" ->
         JoinStrings([i \in 1..Len(x.v) |->
                        IF x.v[i].t \in {"undefined", "null"} THEN ""
                        ELSE JsToString(x.v[i])], ",")
    [] OTHER -> "[object Object]"

(***************************************************************************)
(* utils/json.ts                                                           *)
(***************************************************************************)
\* the catch block of safeParse: null when JSON.parse threw
ValueOrNull(r) == IF r.ok THEN r.val ELSE Null

\* safeParse(jsonString): the parsed value, null when JSON.parse throws
safeParse(jsonString) == ValueOrNull(JSONParse(jsonString))

(***************************************************************************)
(* types: the error taxonomy.  An error is a record; cls is the class it   *)
(* was constructed with ("NonError" for a thrown value that is not an      *)
(* Error), name its name property.                                         *)
(***************************************************************************)
TypedClasses == {"ValidationError", "AuthenticationError", "NotFoundError",
                 "ConfigurationError", "ExternalServiceError", "NetworkError"}

ErrorCode(cls) ==
  CASE cls = "ValidationError" -> "VALIDATION_ERROR"
    [] cls = "AuthenticationError" -> "AUTHENTICATION_ERROR"
    [] cls = "NotFoundError" -> "NOT_FOUND"
    [] cls = "ConfigurationError" -> "CONFIGURATION_ERROR"
    [] cls = "ExternalServiceError" -> "EXTERNAL_SERVICE_ERROR"
    [] cls = "NetworkError" -> "NETWORK_ERROR"
    [] OTHER -> ""

ErrorStatus(cls) ==
  CASE cls = "ValidationError" -> 400
    [] cls = "AuthenticationError" -> 401
    [] cls = "NotFoundError" -> 404
    [] cls = "ConfigurationError" -> 500
    [] cls = "ExternalServiceError" -> 502
    [] cls = "NetworkError" -> 503
    [] OTHER -> 0

\* new <cls>(message, context), cls one of the six typed classes
TypedError(cls, message, context) ==
  [cls |-> cls, message |-> message, name |-> cls,
   code |-> ErrorCode(cls), status |-> ErrorStatus(cls), ctx |-> context]

\* new Error(message)
PlainError(message) ==
  [cls |-> "Error", message |-> message, name |-> "Error",
   code |-> "", status |-> 0, ctx |-> Undefined]

\* a value thrown by the runtime: cls, name and message as the runtime sets them
RuntimeError(cls, name, message) ==
  [cls |-> cls, message |-> message, name |-> name,
   code |-> "", status |-> 0, ctx |-> Undefined]

NoError == [cls |-> "", message |-> "", name |-> "", code |-> "", status |-> 0, ctx |-> Undefined]

\* error instanceof Error
IsErrorObject(e) == e.cls # "NonError"

\* error instanceof Error ? error.message : String(error)
MessageOf(e) == e.message

\* the outcome of a call: a returned value or a thrown error
Return(val) == [ok |-> TRUE, val |-> val, err |-> NoError]
Throw(err) == [ok |-> FALSE, val |-> Undefined, err |-> err]

(***************************************************************************)
(* utils/json.ts: safeStringify.                                           *)
(***************************************************************************)
\* the try block of safeStringify; JSON.stringify returns undefined when it has
\* no text for the value
safeStringifyTry(data, space) ==
  IF data.t \in {"null", "undefined"} THEN Return(Str(JsToString(data)))
  ELSE IF TypeOf(data) \in {"string", "number", "boolean"}
    THEN Return(Str(JSONStringify(data, space)))
  ELSE IF TypeOf(data) \in {"function", "symbol"}
    THEN Return(Str("[" \o TypeOf(data) \o "]"))
  ELSE IF StringifyThrows(data)
    THEN Throw(RuntimeError("TypeError", "TypeError",
                            "Do not know how to serialize a BigInt"))
  ELSE IF Omitted(data) THEN Return(Undefined)
  ELSE Return(Str(SerializeValue(data, space, 0)))

\* the catch block of safeStringify
StringifyCaught(r) ==
  IF r.ok THEN r.val
  ELSE Str("[Error stringifying data: "
           \o (IF IsErrorObject(r.err) THEN r.err.message ELSE "Unknown error") \o "]")

\* safeStringify(data, space)
safeStringify(data, space) == StringifyCaught(safeStringifyTry(data, space))

(***************************************************************************)
(* utils/validation.ts: the zod schemas.  A schema maps an input to the    *)
(* issues zod reports (in the order zod reports them) and to the parsed    *)
(* output.                                                                 *)
(***************************************************************************)
\* one entry of context.errors: {path: err.path.join('.'), message, code}
Issue(path, message, code) ==
  Obj(<<"path", "message", "code">>, <<Str(path), Str(message), Str(code)>>)

\* StringMin1 without min(1): z.string()
StringAnyLength(x, path, emptyMsg) ==
  IF x.t = "undefined" THEN <<Issue(path, "Required", "invalid_type")>>
  ELSE IF x.t # "string"
    THEN <<Issue(path, "Expected string, received " \o x.t, "invalid_type")>>
  ELSE <<>>

\* z.string().min(1, emptyMsg) at the given path
StringMin1(x, path, emptyMsg) ==
  IF x.t = "undefined" THEN <<Issue(path, "Required", "invalid_type")>>
  ELSE IF x.t # "string"
    THEN <<Issue(path, "Expected string, received " \o x.t, "invalid_type")>>
  ELSE IF Len(x.s) < 1 THEN <<Issue(path, emptyMsg, "too_small")>>
  ELSE <<>>

dashboardIdSchema(x) ==
  [issues |-> StringMin1(x, "", "Dashboard ID cannot be empty"), out |-> x]

cubeIdSchema(x) ==
  [issues |-> StringMin1(x, "", "Cube ID cannot be empty"), out |-> x]

\* z.object(...) on a value that is not an object
NotAnObject(x) ==
  IF x.t = "undefined" THEN <<Issue("", "Required", "invalid_type")>>
  ELSE <<Issue("", "Expected object, received " \o x.t, "invalid_type")>>

\* z.record(z.unknown()).optional()
OptionalRecord(x, path) ==
  IF x.t \in {"undefined", "object"} THEN <<>>
  ELSE <<Issue(path, "Expected object, received " \o x.t, "invalid_type")>>

\* z.number().positive().optional()
OptionalPositive(x, path) ==
  IF x.t = "undefined" THEN <<>>
  ELSE IF x.t # "number"
    THEN <<Issue(path, "Expected number, received " \o x.t, "invalid_type")>>
  ELSE IF x.n <= 0 THEN <<Issue(path, "Number must be greater than 0", "too_small")>>
  ELSE <<>>

\* OptionalNonNegative without nonnegative(): z.number().optional()
OptionalNumber(x, path) ==
  IF x.t \in {"undefined", "number"} THEN <<>>
  ELSE <<Issue(path, "Expected number, received " \o x.t, "invalid_type")>>

\* z.number().nonnegative().optional()
OptionalNonNegative(x, path) ==
  IF x.t = "undefined" THEN <<>>
  ELSE IF x.t # "number"
    THEN <<Issue(path, "Expected number, received " \o x.t, "invalid_type")>>
  ELSE IF x.n < 0
    THEN <<Issue(path, "Number must be greater than or equal to 0", "too_small")>>
  ELSE <<>>

\* the output of z.object: the members of the shape that the input has, in shape order
StripToShape(x, shape) ==
  LET present == SelectSeq(shape, LAMBDA key : HasProp(x, key))
  IN Obj(present, [i \in 1..Len(present) |-> GetProp(x, present[i])])

querySchema(x) ==
  IF x.t # "object" THEN [issues |-> NotAnObject(x), out |-> x]
  ELSE [issues |-> StringMin1(GetProp(x, "query"), "query", "Query cannot be empty")
                   \o OptionalRecord(GetProp(x, "parameters"), "parameters")
                   \o OptionalPositive(GetProp(x, "limit"), "limit")
                   \o OptionalNonNegative(GetProp(x, "offset"), "offset"),
        out |-> StripToShape(x, <<"query", "parameters", "limit", "offset">>)]

\* new URL(s) does not throw: a scheme, and after "://" a host
IsUrl(s) ==
  \E i \in 2..Len(s) :
    /\ Slice(s, i, i + 2) = "://"
    /\ i + 2 < Len(s)
    /\ \A j \in 1..(i - 1) : Ch(s, j) \notin {"/", ":", " "}
    /\ Ch(s, i + 3) \notin {"/", " "}

\* z.string().url('Invalid Sisense URL')
UrlString(x, path) ==
  IF x.t = "undefined" THEN <<Issue(path, "Required", "invalid_type")>>
  ELSE IF x.t # "string"
    THEN <<Issue(path, "Expected string, received " \o x.t, "invalid_type")>>
  ELSE IF ~IsUrl(x.s) THEN <<Issue(path, "Invalid Sisense URL", "invalid_string")>>
  ELSE <<>>

sisenseConfigSchema(x) ==
  IF x.t # "object" THEN [issues |-> NotAnObject(x), out |-> x]
  ELSE [issues |-> UrlString(GetProp(x, "url"), "url")
                   \o StringMin1(GetProp(x, "apiKey"), "apiKey", "API key cannot be empty"),
        out |-> StripToShape(x, <<"url", "apiKey">>)]

\* the characters of the class [a-zA-Z0-9_-]
TokenChars ==
  {"a", "b", "c", "d", "e", "f", "g", "h", "i", "j", "k", "l", "m", "n", "o", "p", "q",
   "r", "s", "t", "u", "v", "w", "x", "y", "z", "A", "B", "C", "D", "E", "F", "G", "H",
   "I", "J", "K", "L", "M", "N", "O", "P", "Q", "R", "S", "T", "U", "V", "W", "X", "Y",
   "Z", "0", "1", "2", "3", "4", "5", "6", "7", "8", "9", "_", "-"}

\* MatchesResourceUri without the $ of the pattern
MatchesResourceUriPrefix(s) ==
  \E kind \in {"dashboard", "cube"} :
    /\ StartsWith(s, "sisense://" \o kind \o "/")
    /\ Ch(s, Len("sisense://" \o kind \o "/") + 1) \in TokenChars

\* /^sisense:\/\/(dashboard|cube)\/[a-zA-Z0-9_-]+$/.test(s)
MatchesResourceUri(s) ==
  \E kind \in {"dashboard", "cube"} :
    /\ StartsWith(s, "sisense://" \o kind \o "/")
    /\ Len(s) > Len("sisense://" \o kind \o "/")
    /\ \A i \in (Len("sisense://" \o kind \o "/") + 1)..Len(s) : Ch(s, i) \in TokenChars

\* z.string().regex(..., 'Invalid resource URI format')
resourceUriSchema(x) ==
  [issues |-> IF x.t = "undefined" THEN <<Issue("", "Required", "invalid_type")>>
              ELSE IF x.t # "string"
                THEN <<Issue("", "Expected string, received " \o x.t, "invalid_type")>>
              ELSE IF ~MatchesResourceUri(x.s)
                THEN <<Issue("", "Invalid resource URI format", "invalid_string")>>
              ELSE <<>>,
   out |-> x]

\* validateInput(schema, input); r is schema applied to input
validateInput(r, input) ==
  IF r.issues = <<>> THEN Return(r.out)
  ELSE Throw(TypedError("ValidationError", "Input validation failed",
               Obj(<<"errors", "input">>,
                   <<Arr(r.issues),
                     IF TypeOf(input) = "object" THEN input
                     ELSE Obj(<<"value">>, <<input>>)>>)))

validateDashboardId(dashboardId) == validateInput(dashboardIdSchema(dashboardId), dashboardId)
validateCubeId(cubeId) == validateInput(cubeIdSchema(cubeId), cubeId)
validateQuery(query) == validateInput(querySchema(query), query)
validateSisenseConfig(config) == validateInput(sisenseConfigSchema(config), config)
validateResourceUri(uri) == validateInput(resourceUriSchema(uri), uri)

(***************************************************************************)
(* services/sisense.ts: SisenseService, the Upstream Client.               *)
(***************************************************************************)
\* a ?? b
Coalesce(a, b) == IF a.t \in {"undefined", "null"} THEN b ELSE a

\* the rawConfig of the constructor
RawConfig(config, env) ==
  Obj(<<"url", "apiKey">>,
      <<Coalesce(Coalesce(GetProp(config, "url"), env.SISENSE_URL), Str("")),
        Coalesce(Coalesce(GetProp(config, "apiKey"), env.SISENSE_API_KEY), Str(""))>>)

\* ValidatedConfig that validates whatever the fields are
ValidatedConfigAlways(rawConfig) == validateSisenseConfig(rawConfig)

\* this.config of the constructor, or what validateSisenseConfig throws
ValidatedConfig(rawConfig) ==
  IF Truthy(GetProp(rawConfig, "url")) /\ Truthy(GetProp(rawConfig, "apiKey"))
  THEN validateSisenseConfig(rawConfig)
  ELSE Return(rawConfig)

\* the instance {config, baseUrl}, or the catch block of the constructor
Constructed(config, validated) ==
  IF validated.ok
  THEN Return(Obj(<<"config", "baseUrl">>, <<validated.val, GetProp(validated.val, "url")>>))
  ELSE Throw(TypedError("ConfigurationError", "Invalid Sisense configuration",
               Obj(<<"originalError", "providedConfig">>,
                   <<Str(MessageOf(validated.err)), config>>)))

\* new SisenseService(config) under the environment env: the outcome of the
\* constructor; its value is the instance {config, baseUrl}
Construct(config, env) == Constructed(config, ValidatedConfig(RawConfig(config, env)))

\* isConfigured()
isConfigured(svc) ==
  Truthy(GetProp(svc, "baseUrl")) /\ Truthy(GetProp(GetProp(svc, "config"), "apiKey"))

\* getAuthHeaders()
getAuthHeaders(svc) ==
  LET apiKey == GetProp(GetProp(svc, "config"), "apiKey")
  IN IF Truthy(apiKey)
     THEN Obj(<<"Content-Type", "Accept", "Authorization">>,
              <<Str("application/json"), Str("application/json"),
                Str("Bearer " \o apiKey.s)>>)
     ELSE Obj(<<"Content-Type", "Accept">>,
              <<Str("application/json"), Str("application/json")>>)

\* StripTrailingSlash that leaves the string as it is
KeepTrailingSlash(s) == s

\* s.replace(/\/$/, '')
StripTrailingSlash(s) ==
  IF Len(s) > 0 /\ Ch(s, Len(s)) = "/" THEN Slice(s, 1, Len(s) - 1) ELSE s

\* the url makeRequest builds for an endpoint
RequestUrl(svc, endpoint) == StripTrailingSlash(GetProp(svc, "baseUrl").s) \o endpoint

\* a request handed to fetch: fetch(url, {...options, headers})
FetchRequest(url, options, headers, endpoint) ==
  [endpoint |-> endpoint, url |-> url, headers |-> headers,
   method |-> GetProp(options, "method"), body |-> GetProp(options, "body")]

NoRequest ==
  [endpoint |-> "", url |-> "", headers |-> Undefined, method |-> Undefined,
   body |-> Undefined]

\* options.method || 'GET'
MethodOrGet(req) == IF Truthy(req.method) THEN req.method ELSE Str("GET")

\* makeRequestStart without the isConfigured gate
makeRequestStartUngated(svc, endpoint, options) ==
  [sent |-> TRUE,
   req |-> FetchRequest(RequestUrl(svc, endpoint), options, getAuthHeaders(svc), endpoint),
   out |-> Return(Undefined)]

\* makeRequest up to the await of fetch: either it throws (sent = FALSE) or it
\* hands one request to fetch (sent = TRUE)
makeRequestStart(svc, endpoint, options) ==
  IF ~isConfigured(svc)
  THEN [sent |-> FALSE, req |-> NoRequest,
        out |-> Throw(TypedError("ConfigurationError", "Sisense is not properly configured",
                  Obj(<<"hasUrl", "hasApiKey">>,
                      <<Bool(Truthy(GetProp(GetProp(svc, "config"), "url"))),
                        Bool(Truthy(GetProp(GetProp(svc, "config"), "apiKey")))>>)))]
  ELSE [sent |-> TRUE,
        req |-> FetchRequest(RequestUrl(svc, endpoint), options, getAuthHeaders(svc), endpoint),
        out |-> Return(Undefined)]

(***************************************************************************)
(* What the network does with a request.  kind = "response": fetch         *)
(* resolves with a status, and text() either yields the body or rejects;   *)
(* kind = "reject": fetch rejects with error.                              *)
(***************************************************************************)
HttpResponse(status, statusText, body) ==
  [status |-> status, kind |-> "response", body |-> body, statusText |-> statusText,
   textFails |-> FALSE, error |-> NoError]

BrokenBody(status, statusText) ==
  [status |-> status, kind |-> "response", body |-> "", statusText |-> statusText,
   textFails |-> TRUE, error |-> RuntimeError("TypeError", "TypeError", "terminated")]

FetchRejection(error) ==
  [status |-> 0, kind |-> "reject", body |-> "", statusText |-> "",
   textFails |-> FALSE, error |-> error]

NoResponse ==
  [status |-> 0, kind |-> "", body |-> "", statusText |-> "", textFails |-> FALSE,
   error |-> NoError]

\* response.ok
ResponseOk(resp) == 200 <= resp.status /\ resp.status <= 299

\* StatusError without the branch for 404
StatusErrorWithout404(req, resp) ==
  LET errorContext ==
        Obj(<<"url", "status", "statusText", "method">>,
            <<Str(req.url), Num(resp.status), Str(resp.statusText), MethodOrGet(req)>>)
  IN IF resp.status = 401
       THEN TypedError("AuthenticationError", "Sisense authentication failed", errorContext)
     ELSE IF resp.status >= 500
       THEN TypedError("ExternalServiceError", "Sisense server error", errorContext)
     ELSE TypedError("ExternalServiceError",
                     "Sisense API error: " \o NumToString(resp.status) \o " "
                       \o resp.statusText,
                     errorContext)

\* the error a response with a non-success status is turned into
StatusError(req, resp) ==
  LET errorContext ==
        Obj(<<"url", "status", "statusText", "method">>,
            <<Str(req.url), Num(resp.status), Str(resp.statusText), MethodOrGet(req)>>)
  IN IF resp.status = 401
       THEN TypedError("AuthenticationError", "Sisense authentication failed", errorContext)
     ELSE IF resp.status = 404
       THEN TypedError("NotFoundError", "Sisense resource not found", errorContext)
     ELSE IF resp.status >= 500
       THEN TypedError("ExternalServiceError", "Sisense server error", errorContext)
     ELSE TypedError("ExternalServiceError",
                     "Sisense API error: " \o NumToString(resp.status) \o " "
                       \o resp.statusText,
                     errorContext)

\* the end of the try block: data is what safeParse made of the body
CheckParsed(req, resp, data) ==
  IF data = Null
  THEN Throw(TypedError("ExternalServiceError",
               "Invalid JSON response from Sisense API",
               Obj(<<"url", "responseLength", "responsePreview">>,
                   <<Str(req.url), Num(Len(resp.body)), Str(Slice(resp.body, 1, 200))>>)))
  ELSE Return(data)

\* makeRequestTry without the check of the parsed data against null
makeRequestTryUnchecked(req, resp) ==
  IF resp.kind = "reject" THEN Throw(resp.error)
  ELSE IF ~ResponseOk(resp) THEN Throw(StatusError(req, resp))
  ELSE IF resp.textFails THEN Throw(resp.error)
  ELSE Return(safeParse(resp.body))

\* the try block of makeRequest from the point where fetch settles
makeRequestTry(req, resp) ==
  IF resp.kind = "reject" THEN Throw(resp.error)
  ELSE IF ~ResponseOk(resp) THEN Throw(StatusError(req, resp))
  ELSE IF resp.textFails THEN Throw(resp.error)
  ELSE CheckParsed(req, resp, safeParse(resp.body))

\* error.name === 'TypeError' && error.message.includes('fetch')
IsFetchTypeError(error) ==
  IsErrorObject(error) /\ error.name = "TypeError" /\ Includes(error.message, "fetch")

\* makeRequestCatch that wraps whatever was thrown
makeRequestCatchWrapping(req, error) ==
  Throw(TypedError("ExternalServiceError", "Sisense API request failed",
          Obj(<<"url", "endpoint", "originalError">>,
              <<Str(req.url), Str(req.endpoint), Str(MessageOf(error))>>)))

\* the catch block of makeRequest
makeRequestCatch(req, error) ==
  IF IsFetchTypeError(error)
    THEN Throw(TypedError("NetworkError", "Network error connecting to Sisense",
                 Obj(<<"url", "originalError">>, <<Str(req.url), Str(error.message)>>)))
  ELSE IF error.cls \in {"ConfigurationError", "AuthenticationError", "NotFoundError",
                         "ExternalServiceError", "NetworkError"}
    THEN Throw(error)
  ELSE Throw(TypedError("ExternalServiceError", "Sisense API request failed",
               Obj(<<"url", "endpoint", "originalError">>,
                   <<Str(req.url), Str(req.endpoint), Str(MessageOf(error))>>)))

\* try { ... } catch: r is the outcome of the try block
CatchIfThrown(req, r) == IF r.ok THEN r ELSE makeRequestCatch(req, r.err)

\* makeRequest from the point where fetch settles
makeRequestFinish(req, resp) == CatchIfThrown(req, makeRequestTry(req, resp))

\* what a domain method does before it awaits: NotSent(out) when it throws
NotSent(out) == [sent |-> FALSE, req |-> NoRequest, out |-> out]

EmptyObject == Obj(<<>>, <<>>)

getServerInfo(svc) == makeRequestStart(svc, "/api/v1/server/info", EmptyObject)

getDataSources(svc) == makeRequestStart(svc, "/api/v1/datasources", EmptyObject)

getDashboards(svc) == makeRequestStart(svc, "/api/v1/dashboards", EmptyObject)

\* getDashboard with the gate before the validation of the identifier
getDashboardGateFirst(svc, dashboardId) ==
  LET validatedId == validateDashboardId(dashboardId)
  IN IF ~isConfigured(svc) THEN makeRequestStart(svc, "/api/v1/dashboards/", EmptyObject)
     ELSE IF ~validatedId.ok THEN NotSent(validatedId)
     ELSE makeRequestStart(svc, "/api/v1/dashboards/" \o validatedId.val.s, EmptyObject)

getDashboard(svc, dashboardId) ==
  LET validatedId == validateDashboardId(dashboardId)
  IN IF ~validatedId.ok THEN NotSent(validatedId)
     ELSE makeRequestStart(svc, "/api/v1/dashboards/" \o validatedId.val.s, EmptyObject)

getDashboardWidgets(svc, dashboardId) ==
  LET validatedId == validateDashboardId(dashboardId)
  IN IF ~validatedId.ok THEN NotSent(validatedId)
     ELSE makeRequestStart(svc, "/api/v1/dashboards/" \o validatedId.val.s \o "/widgets",
                           EmptyObject)

executeQuery(svc, query) ==
  LET validatedQuery == validateQuery(query)
  IN IF ~validatedQuery.ok THEN NotSent(validatedQuery)
     ELSE makeRequestStart(svc, "/api/v1/query/execute",
            Obj(<<"method", "body">>,
                <<Str("POST"), Str(JSONStringify(validatedQuery.val, 0))>>))

getCubes(svc) == makeRequestStart(svc, "/api/v1/cubes", EmptyObject)

getCubeMetadata(svc, cubeId) ==
  LET validatedId == validateCubeId(cubeId)
  IN IF ~validatedId.ok THEN NotSent(validatedId)
     ELSE makeRequestStart(svc, "/api/v1/cubes/" \o validatedId.val.s \o "/metadata",
                           EmptyObject)

\* the eight domain methods of SisenseService
Methods == {"getServerInfo", "getDataSources", "getDashboards", "getDashboard",
            "getDashboardWidgets", "executeQuery", "getCubes", "getCubeMetadata"}

\* the methods that take an identifier
IdMethods == {"getDashboard", "getDashboardWidgets", "getCubeMetadata"}

\* svc[method](arg)
InvokeMethod(svc, method, arg) ==
  CASE method = "getServerInfo" -> getServerInfo(svc)
    [] method = "getDataSources" -> getDataSources(svc)
    [] method = "getDashboards" -> getDashboards(svc)
    [] method = "getDashboard" -> getDashboard(svc, arg)
    [] method = "getDashboardWidgets" -> getDashboardWidgets(svc, arg)
    [] method = "executeQuery" -> executeQuery(svc, arg)
    [] method = "getCubes" -> getCubes(svc)
    [] method = "getCubeMetadata" -> getCubeMetadata(svc, arg)

(***************************************************************************)
(* SisenseMCPServer, the Dispatcher.                                       *)
(***************************************************************************)
\* the switch of callTool: the client method the tool calls and its argument,
\* or the error thrown before any call (method = "")
\* ToolCall that drops the argument
ToolCallWithoutArg(method, arg) == [method |-> method, arg |-> Undefined, err |-> NoError]

ToolCall(method, arg) == [method |-> method, arg |-> arg, err |-> NoError]
ToolThrow(err) == [method |-> "", arg |-> Undefined, err |-> err]

\* ArgMissingOrNot without the typeof test: !args[key]
ArgMissing(args, key, type) == ~Truthy(GetProp(args, key))

\* !args[key] || typeof args[key] !== type
ArgMissingOrNot(args, key, type) ==
  ~Truthy(GetProp(args, key)) \/ TypeOf(GetProp(args, key)) # type

\* UnknownTool without the name in the message
UnknownToolUnnamed(name) == ToolThrow(PlainError("Unknown tool"))

\* the default case of the switch
UnknownTool(name) == ToolThrow(PlainError("Unknown tool: " \o name))

callToolSwitch(name, args) ==
  CASE name = "get_server_info" -> ToolCall("getServerInfo", Undefined)
    [] name = "list_data_sources" -> ToolCall("getDataSources", Undefined)
    [] name = "list_dashboards" -> ToolCall("getDashboards", Undefined)
    [] name = "get_dashboard" ->
         (IF ArgMissingOrNot(args, "dashboardId", "string")
          THEN ToolThrow(PlainError("dashboardId is required and must be a string"))
          ELSE ToolCall("getDashboard", GetProp(args, "dashboardId")))
    [] name = "get_dashboard_widgets" ->
         (IF ArgMissingOrNot(args, "dashboardId", "string")
          THEN ToolThrow(PlainError("dashboardId is required and must be a string"))
          ELSE ToolCall("getDashboardWidgets", GetProp(args, "dashboardId")))
    [] name = "execute_query" ->
         (IF ArgMissingOrNot(args, "query", "object")
          THEN ToolThrow(PlainError("query is required and must be an object"))
          ELSE ToolCall("executeQuery", GetProp(args, "query")))
    [] name = "list_cubes" -> ToolCall("getCubes", Undefined)
    [] name = "get_cube_metadata" ->
         (IF ArgMissingOrNot(args, "cubeId", "string")
          THEN ToolThrow(PlainError("cubeId is required and must be a string"))
          ELSE ToolCall("getCubeMetadata", GetProp(args, "cubeId")))
    [] OTHER -> UnknownTool(name)

\* callToolFinish that renders without indentation
callToolFinishCompact(result) ==
  IF result.ok
  THEN Return(Obj(<<"content">>,
                  <<Arr(<<Obj(<<"type", "text">>,
                              <<Str("text"), safeStringify(result.val, 0)>>)>>)>>))
  ELSE Throw(result.err)

\* the end of callTool: the result rendered as one text block; the catch block
\* rethrows the error it caught
callToolFinish(result) ==
  IF result.ok
  THEN Return(Obj(<<"content">>,
                  <<Arr(<<Obj(<<"type", "text">>,
                              <<Str("text"), safeStringify(result.val, 2)>>)>>)>>))
  ELSE Throw(result.err)

\* the names of the tool catalog
ToolNames == {"get_server_info", "list_data_sources", "list_dashboards", "get_dashboard",
              "get_dashboard_widgets", "execute_query", "list_cubes", "get_cube_metadata"}

\* a tool descriptor without arguments
NoArgTool(name, description) ==
  Obj(<<"name", "description", "inputSchema">>,
      <<Str(name), Str(description),
        Obj(<<"type", "properties">>, <<Str("object"), EmptyObject>>)>>)

\* a tool descriptor with one required argument
OneArgTool(name, description, arg, type, argDescription) ==
  Obj(<<"name", "description", "inputSchema">>,
      <<Str(name), Str(description),
        Obj(<<"type", "properties", "required">>,
            <<Str("object"),
              Obj(<<arg>>, <<Obj(<<"type", "description">>,
                                 <<Str(type), Str(argDescription)>>)>>),
              Arr(<<Str(arg)>>)>>)>>)

\* getAvailableTools(): the catalog
getAvailableTools ==
  <<NoArgTool("get_server_info", "Get information about the Sisense server"),
    NoArgTool("list_data_sources", "List all available data sources in Sisense"),
    NoArgTool("list_dashboards", "List all dashboards in Sisense"),
    OneArgTool("get_dashboard", "Get details of a specific dashboard",
               "dashboardId", "string", "The ID of the dashboard to retrieve"),
    OneArgTool("get_dashboard_widgets", "Get widgets from a specific dashboard",
               "dashboardId", "string", "The ID of the dashboard"),
    OneArgTool("execute_query", "Execute a query against Sisense",
               "query", "object", "The query object to execute"),
    NoArgTool("list_cubes", "List all available cubes in Sisense"),
    OneArgTool("get_cube_metadata", "Get metadata for a specific cube",
               "cubeId", "string", "The ID of the cube")>>

\* a handler that lists only the tools that take no argument
listToolsHandlerNoArgOnly ==
  Return(Obj(<<"tools">>,
             <<Arr(SelectSeq(getAvailableTools,
                             LAMBDA t : ~HasProp(GetProp(t, "inputSchema"), "required")))>>))

\* the ListToolsRequestSchema handler
listToolsHandler == Return(Obj(<<"tools">>, <<Arr(getAvailableTools)>>))

\* parts[i] of the parts of a split string, undefined past the last part
PartAt(parts, i) == IF i + 1 <= Len(parts) THEN Str(parts[i + 1]) ELSE Undefined

\* readResourceParts without the switch on the resource type
readResourcePartsAnyKind(uri, resourceType, resourceId) ==
  IF ~Truthy(resourceId) THEN ToolThrow(PlainError("Invalid resource URI: " \o uri))
  ELSE ToolCall("getDashboard", resourceId)

\* readResource from the check of resourceId on: the client method it calls, or
\* the error it throws before any call
readResourceParts(uri, resourceType, resourceId) ==
  IF ~Truthy(resourceId) THEN ToolThrow(PlainError("Invalid resource URI: " \o uri))
  ELSE IF resourceType = Str("dashboard") THEN ToolCall("getDashboard", resourceId)
  ELSE ToolThrow(PlainError("Unsupported resource type: " \o JsToString(resourceType)))

\* readResource(uri) up to its await
readResourceSwitch(uri) ==
  IF ~StartsWith(uri, "sisense://")
  THEN ToolThrow(PlainError("Unsupported resource URI: " \o uri))
  ELSE readResourceParts(uri, PartAt(Split(uri, "/"), 2), PartAt(Split(uri, "/"), 3))

\* the end of readResource: the dashboard rendered as one content block; the
\* catch block rethrows the error it caught
readResourceFinish(uri, result) ==
  IF result.ok
  THEN Return(Obj(<<"contents">>,
                  <<Arr(<<Obj(<<"uri", "mimeType", "text">>,
                              <<Str(uri), Str("application/json"),
                                safeStringify(result.val, 2)>>)>>)>>))
  ELSE Throw(result.err)

\* ResourceOf whose name is the title whatever it is
ResourceOfTitleOnly(dashboard) ==
  Obj(<<"uri", "name", "description", "mimeType">>,
      <<Str("sisense://dashboard/" \o JsToString(GetProp(dashboard, "oid"))),
        GetProp(dashboard, "title"),
        GetProp(dashboard, "description"), Str("application/json")>>)

\* the callback of dashboards.map: the descriptor of one dashboard
ResourceOf(dashboard) ==
  Obj(<<"uri", "name", "description", "mimeType">>,
      <<Str("sisense://dashboard/" \o JsToString(GetProp(dashboard, "oid"))),
        IF Truthy(GetProp(dashboard, "title")) THEN GetProp(dashboard, "title")
        ELSE Str("Dashboard " \o JsToString(GetProp(dashboard, "oid"))),
        GetProp(dashboard, "description"), Str("application/json")>>)

\* the descriptors of the dashboards of a list, in its order
RECURSIVE ResourcesOf(_)
ResourcesOf(list) ==
  IF Len(list) = 0 THEN <<>> ELSE <<ResourceOf(Head(list))>> \o ResourcesOf(Tail(list))

\* dashboards.map(...): a TypeError when dashboards has no map method or one of
\* its elements is null
MapDashboards(dashboards) ==
  IF dashboards.t # "array"
    THEN Throw(RuntimeError("TypeError", "TypeError", "dashboards.map is not a function"))
  ELSE IF \E i \in 1..Len(dashboards.v) : dashboards.v[i].t \in {"null", "undefined"}
    THEN Throw(RuntimeError("TypeError", "TypeError",
                            "Cannot read properties of null (reading 'oid')"))
  ELSE Return(Arr(ResourcesOf(dashboards.v)))

\* getAvailableResourcesGate without the isConfigured test
getAvailableResourcesUngated(svc) == "getDashboards"

\* the gate of getAvailableResources: the client method it goes on to call, ""
\* when it returns the empty list at once
getAvailableResourcesGate(svc) == IF ~isConfigured(svc) THEN "" ELSE "getDashboards"

\* the catch block of getAvailableResources: r is the outcome of its try block
getAvailableResourcesCatch(r) == IF r.ok THEN r ELSE Return(Arr(<<>>))

\* the try block of getAvailableResources from the point where getDashboards settles
getAvailableResourcesTry(dashboards) ==
  IF dashboards.ok THEN MapDashboards(dashboards.val) ELSE dashboards

\* the ListResourcesRequestSchema handler around the outcome r of
\* getAvailableResources
listResourcesHandler(r) ==
  IF r.ok THEN Return(Obj(<<"resources">>, <<r.val>>))
  ELSE Return(Obj(<<"resources">>, <<Arr(<<>>)>>))

\* listResourcesFinish without a catch block: what the try blocks yield
listResourcesFinishUncaught(method, out) ==
  IF method = "" THEN Return(Obj(<<"resources">>, <<out.val>>))
  ELSE IF ~getAvailableResourcesTry(out).ok THEN getAvailableResourcesTry(out)
  ELSE Return(Obj(<<"resources">>, <<getAvailableResourcesTry(out).val>>))

\* List resources from the gate on: method is what the gate chose, out the empty
\* list of the gate or the outcome of getDashboards
listResourcesFinish(method, out) ==
  IF method = "" THEN listResourcesHandler(out)
  ELSE listResourcesHandler(getAvailableResourcesCatch(getAvailableResourcesTry(out)))

\* the end of a handler once the client method it awaited, if any, ended with out
Finished(entry, name, method, out) ==
  CASE entry = "tool" -> callToolFinish(out)
    [] entry = "resource" -> readResourceFinish(name, out)
    [] entry = "listResources" -> listResourcesFinish(method, out)
    [] OTHER -> out

(***************************************************************************)
(* Inputs: what the callers, the environment and the network may supply.   *)
(***************************************************************************)
\* process.env as environment.ts parses it: SISENSE_URL is a URL or undefined
Envs ==
  {[SISENSE_URL |-> Undefined, SISENSE_API_KEY |-> Undefined],
   [SISENSE_URL |-> Str("https://e"), SISENSE_API_KEY |-> Str("tokE")]}

\* the argument of new SisenseService(...)
CtorArgs ==
  {Undefined, Obj(<<"url">>, <<Str("https://p")>>)}
  \cup {Obj(<<"url", "apiKey">>, <<Str(u), Str(k)>>) :
          u \in {"", "https://h", "https://h/", "not-a-url"}, k \in {"", "tok1"}}

\* identifiers handed to the methods and tools
IdValues == {Str("d1"), Str(""), Num(7), Null, Undefined}

\* queries handed to executeQuery and execute_query
QueryValues ==
  {Undefined, Null, Str("q"), Num(3), Arr(<<>>), EmptyObject,
   Obj(<<"query">>, <<Str("")>>),
   Obj(<<"query">>, <<Str("q")>>),
   Obj(<<"query", "limit">>, <<Str("q"), Num(0)>>),
   Obj(<<"limit", "query", "extra">>, <<Num(5), Str("q"), Bool(TRUE)>>)}

MethodArgs(method) ==
  IF method \in IdMethods THEN IdValues
  ELSE IF method = "executeQuery" THEN QueryValues
  ELSE {Undefined}

\* the argument a tool requires, "" if none
RequiredArg(name) ==
  CASE name \in {"get_dashboard", "get_dashboard_widgets"} -> "dashboardId"
    [] name = "get_cube_metadata" -> "cubeId"
    [] name = "execute_query" -> "query"
    [] OTHER -> ""

\* names that are not in the catalog
UnknownNames == {"unknown_tool", "getDashboard", ""}

CalledNames == ToolNames \cup UnknownNames

\* request.params.arguments
ToolArgs(name) ==
  IF name \in UnknownNames
    THEN {Undefined, EmptyObject, Obj(<<"dashboardId">>, <<Str("d1")>>)}
  ELSE IF RequiredArg(name) = "" THEN {Undefined, EmptyObject}
  ELSE {Undefined, EmptyObject}
       \cup {Obj(<<RequiredArg(name)>>, <<x>>) :
               x \in IF name = "execute_query" THEN QueryValues ELSE IdValues}

StatusText(status) ==
  CASE status = 200 -> "OK"
    [] status = 401 -> "Unauthorized"
    [] status = 404 -> "Not Found"
    [] status = 500 -> "Internal Server Error"
    [] OTHER -> "Status"

Bodies ==
  {"{\"a\":1}", "[1, 2]", "7", "\"s\"", "true", "null", "", "<h>", "{\"a\":", "[]",
   "[{\"oid\":\"d1\",\"title\":\"T\"},{\"oid\":\"d2\"}]",
   "[{\"oid\":\"d3\",\"title\":\"\",\"description\":\"D\"}]",
   "[{\"oid\":\"d1\"},null]"}

HttpResponses ==
  {HttpResponse(st, StatusText(st), "") : st \in {300, 400, 401, 403, 404, 499, 500, 503}}
  \cup {HttpResponse(200, StatusText(200), b) : b \in Bodies}
  \cup {HttpResponse(299, StatusText(299), b) : b \in {"{\"a\":1}", "<h>"}}
  \cup {BrokenBody(200, StatusText(200))}

\* request.params.uri of Read resource
ResourceUris ==
  {"", "invalid-uri", "http://dashboard/1", "sisense://dashboard", "sisense://dashboard/",
   "sisense://dashboard//5", "sisense:///1", "sisense://other/1", "sisense://cube/456",
   "sisense://Dashboard/1", "sisense://dashboard/123", "sisense://dashboard/d1/extra",
   "sisense://dashboard/a_b-C9", "sisense://dashboard/d 1"}

\* the exported functions a caller applies to a value of its own
Utilities == {"validateQuery", "validateResourceUri", "safeStringify"}

\* fn(input)
InvokeUtility(fn, input) ==
  CASE fn = "validateQuery" -> validateQuery(input)
    [] fn = "validateResourceUri" -> validateResourceUri(input)
    [] fn = "safeStringify" -> Return(safeStringify(input, 0))

\* the values handed to the exported functions
UtilityArgs(fn) ==
  CASE fn = "validateQuery" ->
         QueryValues
         \cup {Obj(<<"query", "limit">>, <<Str("q"), Num(0 - 1)>>),
               Obj(<<"query", "limit">>, <<Str("q"), Str("5")>>),
               Obj(<<"query", "offset">>, <<Str("q"), Num(0 - 1)>>),
               Obj(<<"query", "offset">>, <<Str("q"), Num(0)>>),
               Obj(<<"query", "offset">>, <<Str("q"), Null>>),
               Obj(<<"query", "parameters">>, <<Str("q"), Arr(<<>>)>>),
               Obj(<<"query", "parameters">>, <<Str("q"), Str("p")>>),
               Obj(<<"query", "parameters", "limit", "offset">>,
                   <<Str("q"), Obj(<<"p">>, <<Num(1)>>), Num(5), Num(2)>>),
               Obj(<<"query", "limit">>, <<Num(5), Num(5)>>),
               Obj(<<"limit", "offset">>, <<Num(5), Num(2)>>),
               Obj(<<"query", "limit", "offset">>, <<Str(""), Num(5), Num(2)>>),
               Obj(<<"query", "limit", "offset">>, <<Str("q"), Num(0), Str("x")>>),
               Obj(<<"query", "parameters", "offset">>,
                   <<Str("q"), Num(1), Num(0 - 2)>>)}
    [] fn = "validateResourceUri" ->
         {Str(uri) : uri \in ResourceUris}
         \cup {Str("sisense://cube/456\n"), Str("xsisense://dashboard/1"),
               Str("sisense://dashboard/1/"), Str("sisense://dashboard/d.1"),
               Str("SISENSE://dashboard/1"), Str("sisense://cube/_"),
               Str("sisense://dashboards/1"), Str("sisense://dashboard/1?x=1")}
    [] fn = "safeStringify" ->
         {Undefined, Null, Str("s"), Num(7), Bool(TRUE), Fn, Sym, BigInt(1),
          EmptyObject, Arr(<<>>),
          Obj(<<"name", "f">>, <<Str("n"), Fn>>),
          Arr(<<Num(1), Fn, Undefined, Sym>>),
          Obj(<<"name", "self">>, <<Str("test"), SeenRef>>),
          Obj(<<"a">>, <<Arr(<<Obj(<<"up">>, <<SeenRef>>)>>)>>),
          Obj(<<"n">>, <<BigInt(1)>>),
          Arr(<<Fn, BigInt(2)>>),
          WithToJSON(Str("2024-01-01")), WithToJSON(Undefined), WithToJSON(Fn),
          WithToJSON(Obj(<<"n">>, <<BigInt(1)>>)),
          Obj(<<"at", "gone">>, <<WithToJSON(Str("2024-01-01")), WithToJSON(Undefined)>>)}

\* what fetch may reject with
Rejections ==
  {RuntimeError("TypeError", "TypeError", "fetch failed"),
   RuntimeError("TypeError", "TypeError", "Load failed"),
   RuntimeError("DOMException", "TimeoutError", "The operation was aborted due to timeout"),
   RuntimeError("NonError", "", "ECONNRESET")}

(***************************************************************************)
(* The state.                                                              *)
(***************************************************************************)
VARIABLES
  phase,      \* "new" before the constructor ran, then "ready" or "failed"
  ctorArg,    \* the argument of the constructor
  env,        \* the environment
  svc,        \* the SisenseService instance, undefined until constructed
  ctorError,  \* the error the constructor threw, NoError if none
  reqs,       \* the caller requests: one record per slot
  fetchCount, \* the number of requests handed to fetch, up to MaxFetches
  listed,     \* the listing of resources a caller took last, and its dashboards
  proc        \* the process: the calls of server.stop() and the exit code

vars == <<phase, ctorArg, env, svc, ctorError, reqs, fetchCount, listed, proc>>

Slots == 1..MaxInFlight

\* a slot without a request
IdleSlot ==
  [st |-> "idle", name |-> "", out |-> Return(Undefined), method |-> "",
   req |-> NoRequest, resp |-> NoResponse, arg |-> Undefined, entry |-> "",
   marg |-> Undefined, fetches |-> 0]

\* a request of a caller.  entry "method" is a call of the domain method name(arg),
\* "tool" is Call tool name with arguments arg, "resource" is Read resource of the
\* uri name, "listResources" and "listTools" are the two listings.  method(marg) is
\* the client method invoked ("" if none), req the request handed to fetch and
\* fetches the number of requests handed to fetch.  r is what ran before the first
\* await; when nothing is awaited the handler runs to its end at once
Started(entry, name, arg, method, marg, r) ==
  [st |-> IF r.sent THEN "waiting" ELSE "done", name |-> name,
   out |-> IF r.sent THEN r.out ELSE Finished(entry, name, method, r.out),
   method |-> method, req |-> r.req, resp |-> NoResponse, arg |-> arg,
   entry |-> entry, marg |-> marg, fetches |-> IF r.sent THEN 1 ELSE 0]

\* Settled that hands the request to fetch again when it failed
SettledRetrying(slot, resp, out) ==
  IF out.ok
  THEN [slot EXCEPT !.st = "done", !.resp = resp,
                    !.out = Finished(slot.entry, slot.name, slot.method, out)]
  ELSE [slot EXCEPT !.fetches = slot.fetches + 1]

\* the request of a slot once fetch has settled with resp and makeRequest ended
\* with out; the handler then runs to its end
Settled(slot, resp, out) ==
  [slot EXCEPT !.st = "done", !.resp = resp,
               !.out = Finished(slot.entry, slot.name, slot.method, out)]

\* no listing taken yet
NothingListed == [dashboards |-> <<>>, resources |-> <<>>]

\* the process after main() registered its signal handlers: shutdown was not
\* called and the process has not exited.  stops holds one record per call of
\* shutdown, settled the calls whose server.stop() has settled and whose
\* continuation has not run yet, oldest first
Running == [stops |-> <<>>, settled |-> <<>>, exited |-> FALSE, exitCode |-> 0]

Init ==
  /\ phase = "new"
  /\ ctorArg \in CtorArgs
  /\ env \in Envs
  /\ svc = Undefined
  /\ ctorError = NoError
  /\ reqs = [s \in Slots |-> IdleSlot]
  /\ fetchCount = 0
  /\ listed = NothingListed
  /\ proc = Running

\* new SisenseService(ctorArg)
ConstructService ==
  /\ phase = "new"
  /\ phase' = IF Construct(ctorArg, env).ok THEN "ready" ELSE "failed"
  /\ svc' = Construct(ctorArg, env).val
  /\ ctorError' = Construct(ctorArg, env).err
  /\ UNCHANGED <<ctorArg, env, reqs, fetchCount, listed, proc>>

CountFetch(r) ==
  IF r.sent /\ fetchCount < MaxFetches THEN fetchCount + 1 ELSE fetchCount

\* slot s takes a request whose synchronous part ended as r
Start(s, entry, name, arg, method, marg, r) ==
  /\ reqs' = [reqs EXCEPT ![s] = Started(entry, name, arg, method, marg, r)]
  /\ fetchCount' = CountFetch(r)

\* a caller applies the exported function fn to input
CallUtility(s, fn, input) ==
  /\ reqs[s].st = "idle"
  /\ Start(s, "utility", fn, input, "", Undefined, NotSent(InvokeUtility(fn, input)))
  /\ UNCHANGED <<phase, ctorArg, env, svc, ctorError, listed, proc>>

\* a caller calls the domain method svc[method](arg)
CallMethod(s, method, arg) ==
  /\ phase = "ready"
  /\ reqs[s].st = "idle"
  /\ Start(s, "method", method, arg, method, arg, InvokeMethod(svc, method, arg))
  /\ UNCHANGED <<phase, ctorArg, env, svc, ctorError, listed, proc>>

\* a handler up to its first await: d is the client method it calls, or the
\* error it throws before any call
Dispatch(s, entry, name, arg, d) ==
  Start(s, entry, name, arg, d.method, d.arg,
        IF d.method = "" THEN NotSent(Throw(d.err))
        ELSE InvokeMethod(svc, d.method, d.arg))

\* the CallToolRequestSchema handler: callTool(name, arguments ?? {})
CallTool(s, name, arguments) ==
  /\ phase = "ready"
  /\ reqs[s].st = "idle"
  /\ Dispatch(s, "tool", name, Coalesce(arguments, EmptyObject),
              callToolSwitch(name, Coalesce(arguments, EmptyObject)))
  /\ UNCHANGED <<phase, ctorArg, env, svc, ctorError, listed, proc>>

\* the ReadResourceRequestSchema handler: readResource(uri)
ReadResource(s, uri) ==
  /\ phase = "ready"
  /\ reqs[s].st = "idle"
  /\ Dispatch(s, "resource", uri, Str(uri), readResourceSwitch(uri))
  /\ UNCHANGED <<phase, ctorArg, env, svc, ctorError, listed, proc>>

\* getAvailableResources up to its await: method is what the gate chose
ListFrom(s, method) ==
  Start(s, "listResources", "", Undefined, method, Undefined,
        IF method = "" THEN NotSent(Return(Arr(<<>>)))
        ELSE InvokeMethod(svc, method, Undefined))

\* the ListResourcesRequestSchema handler
ListResources(s) ==
  /\ phase = "ready"
  /\ reqs[s].st = "idle"
  /\ ListFrom(s, getAvailableResourcesGate(svc))
  /\ UNCHANGED <<phase, ctorArg, env, svc, ctorError, listed, proc>>

\* the ListToolsRequestSchema handler
ListTools(s) ==
  /\ phase = "ready"
  /\ reqs[s].st = "idle"
  /\ Start(s, "listTools", "", Undefined, "", Undefined, NotSent(listToolsHandler))
  /\ UNCHANGED <<phase, ctorArg, env, svc, ctorError, listed, proc>>

\* Settle with the request kept in one place for all callers: makeRequest ends
\* with the request of the first slot
SettleSharedRequest(s, resp) ==
  /\ reqs[s].st = "waiting"
  /\ reqs' = [reqs EXCEPT ![s] =
                Settled(reqs[s], resp, makeRequestFinish(reqs[1].req, resp))]
  /\ UNCHANGED <<phase, ctorArg, env, svc, ctorError, fetchCount, listed, proc>>

\* fetch settles with resp: makeRequest runs to its end, and so does callTool
Settle(s, resp) ==
  /\ reqs[s].st = "waiting"
  /\ reqs' = [reqs EXCEPT ![s] =
                Settled(reqs[s], resp, makeRequestFinish(reqs[s].req, resp))]
  /\ UNCHANGED <<phase, ctorArg, env, svc, ctorError, fetchCount, listed, proc>>

FetchResolves(s, resp) == Settle(s, resp)

FetchRejects(s, error) == Settle(s, FetchRejection(error))

\* the caller takes the outcome of its request
Deliver(s) ==
  /\ reqs[s].st = "done"
  /\ reqs' = [reqs EXCEPT ![s] = IdleSlot]
  /\ UNCHANGED <<phase, ctorArg, env, svc, ctorError, fetchCount, listed, proc>>

\* requests are handled one at a time: a request starts when no other is in flight
NoneInFlight == \A s \in Slots : reqs[s].st = "idle"

Next ==
  \/ ConstructService
  \/ \E method \in Methods : \E arg \in MethodArgs(method) :
       NoneInFlight /\ CallMethod(1, method, arg)
  \/ \E name \in CalledNames : \E arguments \in ToolArgs(name) :
       NoneInFlight /\ CallTool(1, name, arguments)
  \/ \E uri \in ResourceUris : NoneInFlight /\ ReadResource(1, uri)
  \/ NoneInFlight /\ ListResources(1)
  \/ NoneInFlight /\ ListTools(1)
  \/ \E fn \in Utilities : \E input \in UtilityArgs(fn) :
       NoneInFlight /\ CallUtility(1, fn, input)
  \/ \E s \in Slots : \E resp \in HttpResponses : FetchResolves(s, resp)
  \/ \E s \in Slots : \E error \in Rejections : FetchRejects(s, error)
  \/ \E s \in Slots : Deliver(s)

Spec == Init /\ [][Next]_vars

(***************************************************************************)
(* Interleaved callers: a request starts while others wait for the network, *)
(* and the responses arrive in any order.                                   *)
(***************************************************************************)
InitInterleaved ==
  /\ Init
  /\ ctorArg \in {Undefined, Obj(<<"url", "apiKey">>, <<Str("https://h/"), Str("tok1")>>)}
  /\ env = [SISENSE_URL |-> Undefined, SISENSE_API_KEY |-> Undefined]

\* what the upstream answers to the interleaved requests
InterleavedResponses ==
  {HttpResponse(200, StatusText(200), "[{\"oid\":\"d1\",\"title\":\"T\"},{\"oid\":\"d2\"}]"),
   HttpResponse(404, StatusText(404), ""),
   HttpResponse(200, StatusText(200), "<h>")}

NextInterleaved ==
  \/ ConstructService
  \/ \E s \in Slots : \E arg \in {Str("d1"), Str("")} : CallMethod(s, "getDashboard", arg)
  \/ \E s \in Slots :
       CallTool(s, "get_cube_metadata", Obj(<<"cubeId">>, <<Str("c1")>>))
  \/ \E s \in Slots : ReadResource(s, "sisense://dashboard/123")
  \/ \E s \in Slots : ListResources(s)
  \/ \E s \in Slots : \E resp \in InterleavedResponses : FetchResolves(s, resp)
  \/ \E s \in Slots : FetchRejects(s, RuntimeError("TypeError", "TypeError", "fetch failed"))
  \/ \E s \in Slots : Deliver(s)

SpecInterleaved == InitInterleaved /\ [][NextInterleaved]_vars

(***************************************************************************)
(* Discovery and reading: a caller lists the resources, keeps the listing  *)
(* and reads the uris it holds.                                            *)
(***************************************************************************)
\* what the upstream answers to GET /api/v1/dashboards and /api/v1/dashboards/<id>
ListingResponses ==
  {HttpResponse(200, StatusText(200), b) :
     b \in {"[{\"oid\":\"d1\",\"title\":\"T\"},{\"oid\":\"d2\"}]",
            "[{\"oid\":\"a/b\",\"title\":\"S\"}]",
            "[{\"oid\":\"\",\"title\":\"E\"}]",
            "[]", "{\"a\":1}"}}
  \cup {HttpResponse(404, StatusText(404), "")}

\* the caller takes the outcome of List resources and keeps the descriptors; the
\* dashboards are what getDashboards returned for them
TakeListing(s) ==
  /\ reqs[s].st = "done"
  /\ reqs[s].entry = "listResources"
  /\ reqs[s].out.ok
  /\ listed' = [dashboards |-> IF GetProp(reqs[s].out.val, "resources").v = <<>>
                               THEN <<>> ELSE safeParse(reqs[s].resp.body).v,
                resources |-> GetProp(reqs[s].out.val, "resources").v]
  /\ reqs' = [reqs EXCEPT ![s] = IdleSlot]
  /\ UNCHANGED <<phase, ctorArg, env, svc, ctorError, fetchCount, proc>>

\* the caller reads the resource of the i-th descriptor it holds
ReadListed(s, i) ==
  /\ i \in 1..Len(listed.resources)
  /\ ReadResource(s, GetProp(listed.resources[i], "uri").s)

NextRoundTrip ==
  \/ ConstructService
  \/ NoneInFlight /\ ListResources(1)
  \/ \E resp \in ListingResponses : FetchResolves(1, resp)
  \/ TakeListing(1)
  \/ \E i \in 1..2 : NoneInFlight /\ ReadListed(1, i)
  \/ Deliver(1)

SpecRoundTrip == Init /\ [][NextRoundTrip]_vars

(***************************************************************************)
(* main(): the signal handlers.  server.close() belongs to the protocol    *)
(* library: each call of it completes or fails, and the calls settle in    *)
(* any order.                                                              *)
(***************************************************************************)
Signals == {"SIGINT", "SIGTERM", "SIGUSR2"}

\* process.on(signal, () => shutdown(signal)): shutdown runs up to
\* await server.stop(), which calls server.close()
Signal(signal) ==
  /\ ~proc.exited
  /\ Len(proc.stops) < MaxSignals
  /\ proc' = [proc EXCEPT !.stops = Append(@, [st |-> "pending", signal |-> signal])]
  /\ UNCHANGED <<phase, ctorArg, env, svc, ctorError, reqs, fetchCount, listed>>

\* the server.stop() of the i-th call of shutdown settles: it completed or failed
StopSettles(i, completed) ==
  /\ ~proc.exited
  /\ i \in 1..Len(proc.stops)
  /\ proc.stops[i].st = "pending"
  /\ proc' = [proc EXCEPT !.stops[i].st = IF completed THEN "fulfilled" ELSE "rejected",
                          !.settled = Append(@, i)]
  /\ UNCHANGED <<phase, ctorArg, env, svc, ctorError, reqs, fetchCount, listed>>

\* the call of shutdown whose stop settled first resumes after its await:
\* process.exit(0) in the try block, process.exit(1) in the catch block
ShutdownResumes ==
  /\ ~proc.exited
  /\ proc.settled # <<>>
  /\ proc' = [proc EXCEPT !.exited = TRUE,
                          !.exitCode = IF proc.stops[Head(proc.settled)].st = "fulfilled"
                                       THEN 0 ELSE 1,
                          !.settled = Tail(@)]
  /\ UNCHANGED <<phase, ctorArg, env, svc, ctorError, reqs, fetchCount, listed>>

NextShutdown ==
  \/ \E signal \in Signals : Signal(signal)
  \/ \E i \in 1..MaxSignals : \E completed \in BOOLEAN : StopSettles(i, completed)
  \/ ShutdownResumes

\* main() constructs the server, and with it the client, without an argument
InitShutdown == Init /\ ctorArg = Undefined

SpecShutdown == InitShutdown /\ [][NextShutdown]_vars

(***************************************************************************)
(* Properties.                                                             *)
(***************************************************************************)
\* the client exists and both its url and its credential are non-empty
Configured == phase = "ready" /\ isConfigured(svc)

\* the client exists and its url and its credential are both empty
BothEmpty ==
  /\ phase = "ready"
  /\ GetProp(svc, "baseUrl") = Str("")
  /\ GetProp(GetProp(svc, "config"), "apiKey") = Str("")

\* the credential the constructor was given, by its argument or by the environment
Credential ==
  Coalesce(Coalesce(GetProp(ctorArg, "apiKey"), env.SISENSE_API_KEY), Str("")).s

\* the request of slot s has its outcome
Done(s) == reqs[s].st = "done"

\* the request of slot s got an HTTP response
Responded(s) == Done(s) /\ reqs[s].resp.kind = "response"

\* the request of slot s hands the failure of the client on to its caller: a call
\* of a domain method, Call tool or Read resource, but not List resources
HandsOn(s) == reqs[s].entry \in {"method", "tool", "resource"}

\* the request of slot s failed with an error of class cls
FailedWith(s, cls) == Done(s) /\ ~reqs[s].out.ok /\ reqs[s].out.err.cls = cls

\* the string c occurs in a string of the value x, or in one of its keys
RECURSIVE Mentions(_, _)
Mentions(x, c) ==
  \/ x.t = "string" /\ Includes(x.s, c)
  \/ \E i \in 1..Len(x.k) : Includes(x.k[i], c)
  \/ \E i \in 1..Len(x.v) : Mentions(x.v[i], c)

\* C1: on a configured client a response with a non-success status makes the
\* request fail with exactly the kind its status selects: Authentication for 401,
\* NotFound for 404, ExternalService for every other status.
C1_StatusClassification ==
  \A s \in Slots :
    (Configured /\ Responded(s) /\ HandsOn(s) /\ ~ResponseOk(reqs[s].resp)) =>
      LET cls == IF reqs[s].resp.status = 401 THEN "AuthenticationError"
                 ELSE IF reqs[s].resp.status = 404 THEN "NotFoundError"
                 ELSE "ExternalServiceError"
      IN /\ FailedWith(s, cls)
         /\ reqs[s].out.err.code = ErrorCode(cls)

C1_Witness ==
  \E s \in Slots :
    /\ Configured /\ Responded(s) /\ reqs[s].entry = "method"
    /\ reqs[s].resp.status = 404

C3_NoFetchUnconfigured ==
  (phase = "ready" /\ ~isConfigured(svc)) =>
    /\ fetchCount = 0
    /\ \A s \in Slots : reqs[s].st # "waiting" /\ reqs[s].req = NoRequest

C3_Witness ==
  \E s \in Slots :
    /\ phase = "ready" /\ ~isConfigured(svc)
    /\ Done(s) /\ reqs[s].entry = "method" /\ reqs[s].name = "getDashboard"
    /\ reqs[s].arg = Str("d1")

\* the argument is one the Validator accepts for the method
WellFormedQuery(q) ==
  /\ q.t = "object"
  /\ GetProp(q, "query").t = "string" /\ GetProp(q, "query").s # ""
  /\ GetProp(q, "parameters").t \in {"undefined", "object"}
  /\ GetProp(q, "limit").t = "undefined"
       \/ (GetProp(q, "limit").t = "number" /\ GetProp(q, "limit").n > 0)
  /\ GetProp(q, "offset").t = "undefined"
       \/ (GetProp(q, "offset").t = "number" /\ GetProp(q, "offset").n >= 0)

WellFormedArg(method, arg) ==
  IF method \in IdMethods THEN arg.t = "string" /\ arg.s # ""
  ELSE IF method = "executeQuery" THEN WellFormedQuery(arg)
  ELSE TRUE

\* C4 as stated: with url and credential empty every domain method fails with a
\* Configuration error, whatever its argument.
C4_AlwaysConfigurationError ==
  \A s \in Slots :
    (BothEmpty /\ reqs[s].entry = "method" /\ reqs[s].st # "idle") =>
      FailedWith(s, "ConfigurationError")

\* C4 amended: with url and credential empty every domain method fails without a
\* request: with a Configuration error when its argument passes the Validator (or
\* it takes none), with a Validation error when the argument does not.
C4_ConfigurationOrValidation ==
  \A s \in Slots :
    (BothEmpty /\ reqs[s].entry = "method" /\ reqs[s].st # "idle") =>
      /\ reqs[s].req = NoRequest
      /\ FailedWith(s, IF WellFormedArg(reqs[s].name, reqs[s].arg)
                       THEN "ConfigurationError" ELSE "ValidationError")

C4_Witness ==
  \E s \in Slots :
    /\ BothEmpty /\ reqs[s].entry = "method" /\ reqs[s].name = "getDashboard"
    /\ reqs[s].arg = Str("") /\ FailedWith(s, "ValidationError")

\* C5: on a configured client a 2xx response whose body is not JSON makes the
\* request fail with an ExternalService error.
C5_UnparseableBodyFails ==
  \A s \in Slots :
    (/\ Configured /\ Responded(s) /\ HandsOn(s) /\ ResponseOk(reqs[s].resp)
     /\ ~reqs[s].resp.textFails /\ ~JSONParse(reqs[s].resp.body).ok) =>
      FailedWith(s, "ExternalServiceError")

C5_Witness ==
  \E s \in Slots :
    /\ Configured /\ Responded(s) /\ reqs[s].entry = "method"
    /\ reqs[s].resp.status = 200 /\ reqs[s].resp.body = "<h>"

\* C6: on a configured client a 2xx response whose body is valid JSON makes the
\* domain method return the parsed value of the body.
C6_ValidJsonReturned ==
  \A s \in Slots :
    (/\ Configured /\ Responded(s) /\ reqs[s].entry = "method"
     /\ ResponseOk(reqs[s].resp) /\ ~reqs[s].resp.textFails
     /\ JSONParse(reqs[s].resp.body).ok) =>
      /\ reqs[s].out.ok
      /\ reqs[s].out.val = JSONParse(reqs[s].resp.body).val

\* C7: every failure that leaves Call tool is one of the six typed errors.
C7_ToolFailuresTyped ==
  \A s \in Slots :
    (Done(s) /\ reqs[s].entry = "tool" /\ ~reqs[s].out.ok) =>
      reqs[s].out.err.cls \in TypedClasses

\* C8: no error of the client, thrown by the constructor or by a domain method,
\* has the credential in its message or in its context.
C8_NoCredentialInErrors ==
  Credential # "" =>
    /\ ~Includes(ctorError.message, Credential)
    /\ ~Mentions(ctorError.ctx, Credential)
    /\ \A s \in Slots :
         (Done(s) /\ reqs[s].entry = "method" /\ ~reqs[s].out.ok) =>
           /\ ~Includes(reqs[s].out.err.message, Credential)
           /\ ~Mentions(reqs[s].out.err.ctx, Credential)

WrongType(name, x) ==
  IF name = "execute_query" THEN x.t \notin {"object", "array"} ELSE x.t # "string"

\* C10: Call tool for a tool that requires an argument, with the argument missing
\* or of the wrong type, fails with an error whose message names the argument;
\* no client method is invoked and no request is handed to fetch.
C10_ArgumentPreCheck ==
  \A s \in Slots :
    (/\ reqs[s].st # "idle" /\ reqs[s].entry = "tool" /\ RequiredArg(reqs[s].name) # ""
     /\ WrongType(reqs[s].name, GetProp(reqs[s].arg, RequiredArg(reqs[s].name)))) =>
      /\ Done(s) /\ ~reqs[s].out.ok
      /\ Includes(reqs[s].out.err.message, RequiredArg(reqs[s].name))
      /\ reqs[s].method = ""
      /\ reqs[s].req = NoRequest

C10_Witness ==
  \E s \in Slots :
    /\ Configured /\ Done(s) /\ reqs[s].entry = "tool" /\ reqs[s].name = "execute_query"
    /\ reqs[s].arg = EmptyObject /\ ~reqs[s].out.ok

\* the names of the descriptors of the catalog
CatalogNames == {GetProp(getAvailableTools[i], "name").s : i \in 1..Len(getAvailableTools)}

\* the request of slot s ended, or will end, without a client method and without
\* a request to fetch
NothingInvoked(s) ==
  reqs[s].method = "" /\ reqs[s].req = NoRequest /\ reqs[s].fetches = 0

\* C11: Call tool with a name that is not in the catalog fails with the error
\* "Unknown tool: <name>" that carries the name, whatever the arguments, and
\* invokes no client method.
C11_UnknownTool ==
  \A s \in Slots :
    (reqs[s].st # "idle" /\ reqs[s].entry = "tool" /\ reqs[s].name \notin CatalogNames) =>
      /\ Done(s) /\ ~reqs[s].out.ok
      /\ reqs[s].out.err.message = "Unknown tool: " \o reqs[s].name
      /\ NothingInvoked(s)

C11_Witness ==
  \E s \in Slots :
    /\ Configured /\ Done(s) /\ reqs[s].entry = "tool" /\ reqs[s].name = "getDashboard"
    /\ reqs[s].arg = Obj(<<"dashboardId">>, <<Str("d1")>>)
    /\ reqs[s].out.err.message = "Unknown tool: getDashboard"

\* the client method the catalog assigns to a tool
ExpectedMethod(name) ==
  CASE name = "get_server_info" -> "getServerInfo"
    [] name = "list_data_sources" -> "getDataSources"
    [] name = "list_dashboards" -> "getDashboards"
    [] name = "get_dashboard" -> "getDashboard"
    [] name = "get_dashboard_widgets" -> "getDashboardWidgets"
    [] name = "execute_query" -> "executeQuery"
    [] name = "list_cubes" -> "getCubes"
    [] name = "get_cube_metadata" -> "getCubeMetadata"
    [] OTHER -> ""

\* the arguments of the tool have the type the catalog declares: a string for an
\* identifier, an object for a query, nothing required for the other tools
WellTyped(name, args) ==
  RequiredArg(name) = "" \/ ~WrongType(name, GetProp(args, RequiredArg(name)))

\* the tool call of slot s reached the client method of its tool, once, with the
\* argument as the caller gave it
DispatchedAsGiven(s) ==
  /\ reqs[s].method = ExpectedMethod(reqs[s].name)
  /\ reqs[s].marg = (IF RequiredArg(reqs[s].name) = "" THEN Undefined
                     ELSE GetProp(reqs[s].arg, RequiredArg(reqs[s].name)))
  /\ reqs[s].fetches <= 1

\* C12 as stated: Call tool with a catalog name and arguments of the declared type
\* invokes the client method of the tool, once, with the argument unchanged.
C12_WellTypedDispatch ==
  \A s \in Slots :
    (/\ reqs[s].st # "idle" /\ reqs[s].entry = "tool" /\ reqs[s].name \in CatalogNames
     /\ WellTyped(reqs[s].name, reqs[s].arg)) =>
      DispatchedAsGiven(s)

\* C12 amended: Call tool with a catalog name and arguments of the declared type,
\* the identifier not being the empty string, invokes the client method of the
\* tool, once, with the argument unchanged; with the empty string as identifier no
\* client method is invoked.
C12_NonEmptyDispatch ==
  \A s \in Slots :
    (/\ reqs[s].st # "idle" /\ reqs[s].entry = "tool" /\ reqs[s].name \in CatalogNames
     /\ WellTyped(reqs[s].name, reqs[s].arg)) =>
      IF RequiredArg(reqs[s].name) # ""
         /\ GetProp(reqs[s].arg, RequiredArg(reqs[s].name)) = Str("")
      THEN NothingInvoked(s) /\ Done(s) /\ ~reqs[s].out.ok
      ELSE DispatchedAsGiven(s)

C12_Witness ==
  \E s \in Slots :
    /\ Configured /\ Done(s) /\ reqs[s].entry = "tool"
    /\ reqs[s].name = "get_cube_metadata"
    /\ reqs[s].arg = Obj(<<"cubeId">>, <<Str("d1")>>)
    /\ reqs[s].method = "getCubeMetadata" /\ reqs[s].marg = Str("d1")
    /\ reqs[s].out.ok

\* C13: on a configured client a call of a domain method with a valid argument
\* hands exactly one request to fetch, and whatever fetch answers no second one:
\* no request of a caller ever counts more than one.
C13_SingleRequest ==
  \A s \in Slots :
    /\ reqs[s].fetches <= 1
    /\ (/\ Configured /\ reqs[s].st # "idle" /\ reqs[s].entry = "method"
        /\ WellFormedArg(reqs[s].name, reqs[s].arg)) =>
         /\ reqs[s].fetches = 1
         /\ reqs[s].req # NoRequest
    /\ Done(s) => (reqs[s].resp # NoResponse <=> reqs[s].fetches = 1)

C13_Witness ==
  \E s \in Slots :
    /\ Configured /\ Done(s) /\ reqs[s].entry = "method"
    /\ reqs[s].name = "getDashboards"
    /\ reqs[s].resp.status = 503 /\ ~reqs[s].out.ok
    /\ reqs[s].fetches = 1

\* the path under the base URL that a domain method requests
ExpectedPath(method, arg) ==
  CASE method = "getServerInfo" -> "/api/v1/server/info"
    [] method = "getDataSources" -> "/api/v1/datasources"
    [] method = "getDashboards" -> "/api/v1/dashboards"
    [] method = "getDashboard" -> "/api/v1/dashboards/" \o arg.s
    [] method = "getDashboardWidgets" -> "/api/v1/dashboards/" \o arg.s \o "/widgets"
    [] method = "executeQuery" -> "/api/v1/query/execute"
    [] method = "getCubes" -> "/api/v1/cubes"
    [] method = "getCubeMetadata" -> "/api/v1/cubes/" \o arg.s \o "/metadata"
    [] OTHER -> ""

\* the url the constructor was given, by its argument or by the environment
GivenUrl == Coalesce(Coalesce(GetProp(ctorArg, "url"), env.SISENSE_URL), Str("")).s

\* the string without its last character when that is a slash
WithoutLastSlash(u) ==
  IF Len(u) > 0 /\ SubSeq(u, Len(u), Len(u)) = "/" THEN SubSeq(u, 1, Len(u) - 1) ELSE u

\* C14: every request handed to fetch has the url of the client, one trailing
\* slash removed, followed by the path of the method; the verb GET, except POST
\* for executeQuery, whose body is the JSON encoding of the validated query; and
\* exactly the headers Authorization: Bearer <credential>, Content-Type:
\* application/json and Accept: application/json.
C14_RequestShape ==
  \A s \in Slots :
    reqs[s].req # NoRequest =>
      /\ reqs[s].req.url
           = WithoutLastSlash(GivenUrl) \o ExpectedPath(reqs[s].method, reqs[s].marg)
      /\ Coalesce(reqs[s].req.method, Str("GET"))
           = Str(IF reqs[s].method = "executeQuery" THEN "POST" ELSE "GET")
      /\ reqs[s].req.body
           = (IF reqs[s].method = "executeQuery"
              THEN Str(JSONStringify(validateQuery(reqs[s].marg).val, 0))
              ELSE Undefined)
      /\ Len(reqs[s].req.headers.k) = 3
      /\ GetProp(reqs[s].req.headers, "Authorization") = Str("Bearer " \o Credential)
      /\ GetProp(reqs[s].req.headers, "Content-Type") = Str("application/json")
      /\ GetProp(reqs[s].req.headers, "Accept") = Str("application/json")

C14_Witness ==
  \E s \in Slots :
    /\ GivenUrl = "https://h/" /\ Credential = "tok1"
    /\ reqs[s].st = "waiting" /\ reqs[s].method = "executeQuery"
    /\ reqs[s].req.url = "https://h/api/v1/query/execute"
    /\ reqs[s].req.method = Str("POST")
    /\ reqs[s].req.body = Str("{\"query\":\"q\",\"limit\":5}")

\* the empty listing
NoResources == Return(Obj(<<"resources">>, <<Arr(<<>>)>>))

\* the request of slot s is a listing of resources that went wrong: getDashboards
\* was called and fetch rejected, or answered with a failure status, a body that
\* cannot be read or is not JSON, a value that is not a list, or a list with an
\* element that is null
ListingFailed(s) ==
  /\ reqs[s].entry = "listResources" /\ reqs[s].method = "getDashboards"
  /\ \/ reqs[s].resp.kind # "response"
     \/ ~ResponseOk(reqs[s].resp)
     \/ reqs[s].resp.textFails
     \/ ~JSONParse(reqs[s].resp.body).ok
     \/ JSONParse(reqs[s].resp.body).val.t # "array"
     \/ \E i \in 1..Len(JSONParse(reqs[s].resp.body).val.v) :
          JSONParse(reqs[s].resp.body).val.v[i] = Null

\* C15: List resources never fails: when getDashboards fails with whatever error,
\* or its result cannot be mapped, List resources returns the empty list.
C15_ListingNeverFails ==
  \A s \in Slots :
    (Done(s) /\ reqs[s].entry = "listResources") =>
      /\ reqs[s].out.ok
      /\ ListingFailed(s) => reqs[s].out = NoResources

C15_Witness ==
  \E s \in Slots :
    /\ Configured /\ Done(s) /\ ListingFailed(s)
    /\ reqs[s].resp.body = "[{\"oid\":\"d1\"},null]"

\* C16: on a client that is not configured List resources returns the empty list,
\* without error, without a call of getDashboards and without a request.
C16_UnconfiguredListing ==
  \A s \in Slots :
    (/\ phase = "ready" /\ ~isConfigured(svc)
     /\ reqs[s].st # "idle" /\ reqs[s].entry = "listResources") =>
      /\ Done(s)
      /\ reqs[s].out = NoResources
      /\ NothingInvoked(s)
      /\ fetchCount = 0

C16_Witness ==
  \E s \in Slots :
    /\ phase = "ready" /\ ~isConfigured(svc) /\ GivenUrl = "https://h"
    /\ Done(s) /\ reqs[s].entry = "listResources"

\* the request of slot s is a listing for which getDashboards returned a list of
\* dashboards: objects with a string as native identifier
ListedDashboards(s) ==
  /\ Done(s) /\ reqs[s].entry = "listResources" /\ reqs[s].method = "getDashboards"
  /\ reqs[s].resp.kind = "response" /\ ResponseOk(reqs[s].resp) /\ ~reqs[s].resp.textFails
  /\ JSONParse(reqs[s].resp.body).ok
  /\ JSONParse(reqs[s].resp.body).val.t = "array"
  /\ \A i \in 1..Len(JSONParse(reqs[s].resp.body).val.v) :
       /\ JSONParse(reqs[s].resp.body).val.v[i].t = "object"
       /\ GetProp(JSONParse(reqs[s].resp.body).val.v[i], "oid").t = "string"

\* the descriptors of the listing of slot s stand one for one, in order, for the
\* dashboards, each with the uri of the native identifier and the mime type
DescriptorPerDashboard(s, dashboards, resources) ==
  /\ resources.t = "array"
  /\ Len(resources.v) = Len(dashboards.v)
  /\ \A i \in 1..Len(dashboards.v) :
       /\ GetProp(resources.v[i], "uri")
            = Str("sisense://dashboard/" \o GetProp(dashboards.v[i], "oid").s)
       /\ GetProp(resources.v[i], "mimeType") = Str("application/json")

\* C17 as stated: when getDashboards returns a list, List resources returns one
\* descriptor per dashboard, in order, with uri sisense://dashboard/<id>, mime
\* type application/json, and as name the title, or "Dashboard <id>" when the
\* dashboard has no title.
C17_TitleOrSynthesizedWhenAbsent ==
  \A s \in Slots :
    ListedDashboards(s) =>
      /\ reqs[s].out.ok
      /\ DescriptorPerDashboard(s, JSONParse(reqs[s].resp.body).val,
                                GetProp(reqs[s].out.val, "resources"))
      /\ \A i \in 1..Len(JSONParse(reqs[s].resp.body).val.v) :
           GetProp(GetProp(reqs[s].out.val, "resources").v[i], "name")
             = (IF HasProp(JSONParse(reqs[s].resp.body).val.v[i], "title")
                THEN GetProp(JSONParse(reqs[s].resp.body).val.v[i], "title")
                ELSE Str("Dashboard "
                         \o GetProp(JSONParse(reqs[s].resp.body).val.v[i], "oid").s))

\* C17 amended: as C17, the name being "Dashboard <id>" when the dashboard has no
\* title or an empty one.
C17_TitleOrSynthesizedWhenEmpty ==
  \A s \in Slots :
    ListedDashboards(s) =>
      /\ reqs[s].out.ok
      /\ DescriptorPerDashboard(s, JSONParse(reqs[s].resp.body).val,
                                GetProp(reqs[s].out.val, "resources"))
      /\ \A i \in 1..Len(JSONParse(reqs[s].resp.body).val.v) :
           GetProp(GetProp(reqs[s].out.val, "resources").v[i], "name")
             = (IF GetProp(JSONParse(reqs[s].resp.body).val.v[i], "title")
                     \notin {Undefined, Null, Str("")}
                THEN GetProp(JSONParse(reqs[s].resp.body).val.v[i], "title")
                ELSE Str("Dashboard "
                         \o GetProp(JSONParse(reqs[s].resp.body).val.v[i], "oid").s))

C17_Witness ==
  \E s \in Slots :
    /\ ListedDashboards(s)
    /\ reqs[s].resp.body = "[{\"oid\":\"d1\",\"title\":\"T\"},{\"oid\":\"d2\"}]"
    /\ Len(GetProp(reqs[s].out.val, "resources").v) = 2
    /\ GetProp(GetProp(reqs[s].out.val, "resources").v[2], "name") = Str("Dashboard d2")

\* what follows "sisense://" in the uri, cut at the slashes
AfterScheme(uri) == Split(SubSeq(uri, Len("sisense://") + 1, Len(uri)), "/")

\* the kind of a uri that starts with the scheme: what stands before the first
\* slash after the scheme
UriKind(uri) == AfterScheme(uri)[1]

\* the id of a uri that starts with the scheme: what stands between the first and
\* the second slash after the scheme, "" if there is nothing
UriId(uri) == IF Len(AfterScheme(uri)) >= 2 THEN AfterScheme(uri)[2] ELSE ""

\* the request of slot s failed before any call with an error whose message has
\* the two texts in it
RejectedNaming(s, text, what) ==
  /\ Done(s) /\ ~reqs[s].out.ok
  /\ Includes(reqs[s].out.err.message, text)
  /\ Includes(reqs[s].out.err.message, what)
  /\ NothingInvoked(s)

\* C18: Read resource fails without a call of the client for every uri that does
\* not start with sisense:// or has no id, with an error whose message has the
\* uri in it, and for every uri with an id whose kind is not dashboard, cube
\* included, with the error "Unsupported resource type" that names the kind.
C18_MalformedOrUnsupportedUri ==
  \A s \in Slots :
    (reqs[s].st # "idle" /\ reqs[s].entry = "resource") =>
      IF ~StartsWith(reqs[s].name, "sisense://") \/ UriId(reqs[s].name) = ""
        THEN RejectedNaming(s, "resource URI", reqs[s].name)
      ELSE UriKind(reqs[s].name) # "dashboard" =>
             RejectedNaming(s, "Unsupported resource type", UriKind(reqs[s].name))

C18_Witness ==
  \E s \in Slots :
    /\ Configured /\ Done(s) /\ reqs[s].entry = "resource"
    /\ reqs[s].name = "sisense://cube/456"
    /\ reqs[s].out.err.message = "Unsupported resource type: cube"

\* the payload the client returned to the handler of slot s: the parsed body
Payload(s) == JSONParse(reqs[s].resp.body).val

\* C19: a successful Call tool has exactly one content block, of type text, and a
\* successful Read resource exactly one, tagged with the requested uri and the
\* mime type application/json; the text of the block is the JSON serialization
\* of the payload of the client, indented by two spaces.
C19_SingleJsonBlock ==
  \A s \in Slots :
    (Done(s) /\ reqs[s].out.ok) =>
      /\ reqs[s].entry = "tool" =>
           reqs[s].out.val
             = Obj(<<"content">>,
                   <<Arr(<<Obj(<<"type", "text">>,
                               <<Str("text"), Str(JSONStringify(Payload(s), 2))>>)>>)>>)
      /\ reqs[s].entry = "resource" =>
           reqs[s].out.val
             = Obj(<<"contents">>,
                   <<Arr(<<Obj(<<"uri", "mimeType", "text">>,
                               <<Str(reqs[s].name), Str("application/json"),
                                 Str(JSONStringify(Payload(s), 2))>>)>>)>>)

C19_Witness ==
  \E s \in Slots :
    /\ Done(s) /\ reqs[s].out.ok /\ reqs[s].entry = "tool"
    /\ reqs[s].name = "get_dashboard" /\ reqs[s].resp.body = "{\"a\":1}"
    /\ GetProp(GetProp(reqs[s].out.val, "content").v[1], "text")
         = Str("{\n  \"a\": 1\n}")

\* arguments that pass the check of every tool
FilledArgs ==
  Obj(<<"dashboardId", "cubeId", "query">>,
      <<Str("d1"), Str("c1"), Obj(<<"query">>, <<Str("q")>>)>>)

\* C20: in every state List tools returns the same catalog of 8 descriptors with
\* distinct names, without a call of the client, and the names that Call tool
\* dispatches to a client method are the names of the catalog.
C20_StaticCatalog ==
  /\ \A s \in Slots :
       (reqs[s].st # "idle" /\ reqs[s].entry = "listTools") =>
         /\ Done(s) /\ reqs[s].out.ok
         /\ GetProp(reqs[s].out.val, "tools") = Arr(getAvailableTools)
         /\ Len(GetProp(reqs[s].out.val, "tools").v) = 8
         /\ \A i, j \in 1..Len(GetProp(reqs[s].out.val, "tools").v) :
              i # j => GetProp(GetProp(reqs[s].out.val, "tools").v[i], "name")
                         # GetProp(GetProp(reqs[s].out.val, "tools").v[j], "name")
         /\ {GetProp(GetProp(reqs[s].out.val, "tools").v[i], "name").s :
               i \in 1..Len(GetProp(reqs[s].out.val, "tools").v)} = ToolNames
         /\ NothingInvoked(s)
  /\ {name \in CalledNames : callToolSwitch(name, FilledArgs).method # ""} = ToolNames
  /\ \A name \in ToolNames :
       ~Includes(callToolSwitch(name, EmptyObject).err.message, "Unknown tool")

C20_Witness ==
  \E s \in Slots :
    /\ Configured /\ fetchCount >= 1
    /\ Done(s) /\ reqs[s].entry = "listTools"

\* C21: the outcome of the constructor is determined by the url and the
\* credential: with one of them empty the client is constructed and is not
\* configured; with both non-empty and a url that is a URL it is constructed and
\* configured; with both non-empty and a url that is no URL the constructor fails
\* with a Configuration error.  In every state of a constructed client
\* isConfigured() is true iff both are non-empty, and the client holds the url and
\* the credential it was given.
C21_ConstructionOutcome ==
  phase # "new" =>
    /\ IF GivenUrl = "" \/ Credential = ""
         THEN phase = "ready" /\ ~isConfigured(svc)
       ELSE IF Includes(GivenUrl, "://")
         THEN phase = "ready" /\ isConfigured(svc)
       ELSE /\ phase = "failed"
            /\ ctorError.cls = "ConfigurationError"
            /\ ctorError.code = "CONFIGURATION_ERROR"
    /\ phase = "ready" =>
         /\ isConfigured(svc) <=> (GivenUrl # "" /\ Credential # "")
         /\ GetProp(svc, "baseUrl") = Str(GivenUrl)
         /\ GetProp(GetProp(svc, "config"), "apiKey") = Str(Credential)

C21_Witness ==
  /\ phase = "failed" /\ GivenUrl = "not-a-url" /\ Credential = "tok1"
  /\ ctorError.cls = "ConfigurationError"

\* the request of slot s is the finished call fn(input) of an exported function
Applied(s, fn) == Done(s) /\ reqs[s].entry = "utility" /\ reqs[s].name = fn

\* the member key of the value q is absent
Absent(q, key) == GetProp(q, key).t = "undefined"

\* C22: validateQuery accepts every object whose query is a non-empty string and
\* whose limit, offset and parameters are each absent or valid (limit > 0,
\* offset >= 0, parameters an object that is no array), and returns its query; it
\* fails with a Validation error whenever query is missing or empty, limit <= 0 or
\* offset < 0, whatever the other members are.
C22_ValidateQuery ==
  \A s \in Slots :
    Applied(s, "validateQuery") =>
      LET q == reqs[s].arg
          out == reqs[s].out
      IN /\ ( /\ q.t = "object"
              /\ GetProp(q, "query").t = "string" /\ GetProp(q, "query").s # ""
              /\ Absent(q, "limit")
                   \/ (GetProp(q, "limit").t = "number" /\ GetProp(q, "limit").n > 0)
              /\ Absent(q, "offset")
                   \/ (GetProp(q, "offset").t = "number" /\ GetProp(q, "offset").n >= 0)
              /\ Absent(q, "parameters") \/ GetProp(q, "parameters").t = "object" )
            => (out.ok /\ GetProp(out.val, "query") = GetProp(q, "query"))
         /\ ( \/ Absent(q, "query")
              \/ GetProp(q, "query") = Str("")
              \/ (GetProp(q, "limit").t = "number" /\ GetProp(q, "limit").n <= 0)
              \/ (GetProp(q, "offset").t = "number" /\ GetProp(q, "offset").n < 0) )
            => (~out.ok /\ out.err.cls = "ValidationError"
                /\ out.err.code = "VALIDATION_ERROR")

C22_Witness ==
  \E s \in Slots :
    /\ Applied(s, "validateQuery")
    /\ reqs[s].arg = Obj(<<"query", "parameters", "offset">>,
                         <<Str("q"), Num(1), Num(0 - 2)>>)
    /\ FailedWith(s, "ValidationError")

\* the characters of a resource id, as one string
IdAlphabet == "abcdefghijklmnopqrstuvwxyzABCDEFGHIJKLMNOPQRSTUVWXYZ0123456789_-"

\* the string is "sisense://", then dashboard or cube, then one slash, then a
\* non-empty id of letters, digits, "_" and "-", and nothing else
WellFormedUri(uri) ==
  /\ StartsWith(uri, "sisense://")
  /\ Len(AfterScheme(uri)) = 2
  /\ UriKind(uri) \in {"dashboard", "cube"}
  /\ UriId(uri) # ""
  /\ \A i \in 1..Len(UriId(uri)) : Includes(IdAlphabet, Ch(UriId(uri), i))

\* C23: validateResourceUri returns a string unchanged if the whole string is
\* "sisense://", dashboard or cube, "/" and a non-empty id of [a-zA-Z0-9_-], and
\* fails with a Validation error on every other string.
C23_ValidateResourceUri ==
  \A s \in Slots :
    (Applied(s, "validateResourceUri") /\ reqs[s].arg.t = "string") =>
      IF WellFormedUri(reqs[s].arg.s)
      THEN reqs[s].out = Return(reqs[s].arg)
      ELSE FailedWith(s, "ValidationError")

C23_Witness ==
  \E s \in Slots :
    /\ Applied(s, "validateResourceUri")
    /\ reqs[s].arg = Str("sisense://dashboard/1?x=1")
    /\ FailedWith(s, "ValidationError")

C23_WitnessAccepted ==
  \E s \in Slots :
    /\ Applied(s, "validateResourceUri")
    /\ reqs[s].arg = Str("sisense://dashboard/a_b-C9")
    /\ reqs[s].out.ok

\* what was raised inside the client for the request of slot s: by the domain
\* method before any request was handed to fetch, or by the try block of
\* makeRequest once fetch had settled
RaisedInClient(s) ==
  IF reqs[s].fetches = 0
  THEN InvokeMethod(svc, reqs[s].method, reqs[s].marg).out
  ELSE makeRequestTry(reqs[s].req, reqs[s].resp)

\* C26: when Call tool or Read resource invoked a client method and a typed error
\* was raised inside the client, the caller gets that very error: the same class,
\* code, status, message and context.
C26_TypedErrorReachesCaller ==
  \A s \in Slots :
    ( /\ Done(s) /\ reqs[s].entry \in {"tool", "resource"} /\ reqs[s].method # ""
      /\ ~RaisedInClient(s).ok
      /\ RaisedInClient(s).err.cls \in TypedClasses )
    => reqs[s].out = Throw(RaisedInClient(s).err)

C26_Witness ==
  \E s \in Slots :
    /\ Done(s) /\ reqs[s].entry = "resource" /\ reqs[s].method = "getDashboard"
    /\ reqs[s].resp.kind = "response" /\ reqs[s].resp.status = 404
    /\ reqs[s].out.err.cls = "NotFoundError"
    /\ GetProp(reqs[s].out.err.ctx, "status") = Num(404)

\* the Validator applied to the value x of the argument the tool name requires
ValidatorOf(name, x) ==
  CASE RequiredArg(name) = "dashboardId" -> validateDashboardId(x)
    [] RequiredArg(name) = "cubeId" -> validateCubeId(x)
    [] RequiredArg(name) = "query" -> validateQuery(x)

\* C27: every value of dashboardId, cubeId or query that the check of the
\* Dispatcher rejects (no client method is invoked) is one the Validator of that
\* argument rejects with a Validation error.
C27_PreCheckLooser ==
  \A s \in Slots :
    ( /\ Done(s) /\ reqs[s].entry = "tool" /\ RequiredArg(reqs[s].name) # ""
      /\ reqs[s].method = "" )
    => /\ ~ValidatorOf(reqs[s].name, GetProp(reqs[s].arg, RequiredArg(reqs[s].name))).ok
       /\ ValidatorOf(reqs[s].name, GetProp(reqs[s].arg, RequiredArg(reqs[s].name))).err.cls
            = "ValidationError"

C27_Witness ==
  \E s \in Slots :
    /\ Done(s) /\ reqs[s].entry = "tool" /\ reqs[s].name = "get_cube_metadata"
    /\ reqs[s].arg = Obj(<<"cubeId">>, <<Num(7)>>)
    /\ reqs[s].method = ""
    /\ reqs[s].out.err.message = "cubeId is required and must be a string"

\* C28: every uri for which Read resource invokes the client is one the
\* resource-URI schema accepts, and the id handed to getDashboard is what follows
\* "sisense://dashboard/" in it.
C28_InvokedOnlyForSchemaUris ==
  \A s \in Slots :
    (reqs[s].st # "idle" /\ reqs[s].entry = "resource" /\ reqs[s].method # "")
    => /\ validateResourceUri(Str(reqs[s].name)).ok
       /\ reqs[s].name = "sisense://dashboard/" \o reqs[s].marg.s

\* C24: safeStringify returns a string for every value: it never throws and
\* never returns anything else.
C24_AlwaysAString ==
  \A s \in Slots :
    Applied(s, "safeStringify") => (reqs[s].out.ok /\ reqs[s].out.val.t = "string")

\* C29: Read resource on the uri of a descriptor that List resources returned is
\* not rejected before the call of the client, and calls getDashboard with the
\* native identifier of the dashboard the descriptor was made from.
C29_RoundTrip ==
  \A s \in Slots :
    ( /\ reqs[s].st # "idle" /\ reqs[s].entry = "resource"
      /\ \E i \in 1..Len(listed.resources) :
           GetProp(listed.resources[i], "uri") = Str(reqs[s].name) )
    => /\ reqs[s].method = "getDashboard"
       /\ \E i \in 1..Len(listed.resources) :
            /\ GetProp(listed.resources[i], "uri") = Str(reqs[s].name)
            /\ reqs[s].marg = GetProp(listed.dashboards[i], "oid")

\* C30: the process exits only after the server.stop() invoked on each signal it
\* received has finished, also when further signals arrived while a shutdown was
\* in progress: with code 0 only when every call of stop completed, with code 1
\* only when a call of stop failed.
C30_ExitAfterStop ==
  proc.exited =>
    /\ proc.stops # <<>>
    /\ \A i \in 1..Len(proc.stops) : proc.stops[i].st # "pending"
    /\ proc.exitCode = 0 => \A i \in 1..Len(proc.stops) : proc.stops[i].st = "fulfilled"
    /\ proc.exitCode = 1 => \E i \in 1..Len(proc.stops) : proc.stops[i].st = "rejected"

\* the handler of a request up to its first await, run on the client svc with no
\* other request around
StartedAlone(slot) ==
  CASE slot.entry = "method" ->
         Started("method", slot.name, slot.arg, slot.name, slot.arg,
                 InvokeMethod(svc, slot.name, slot.arg))
    [] slot.entry = "tool" ->
         Started("tool", slot.name, slot.arg,
                 callToolSwitch(slot.name, slot.arg).method,
                 callToolSwitch(slot.name, slot.arg).arg,
                 IF callToolSwitch(slot.name, slot.arg).method = ""
                 THEN NotSent(Throw(callToolSwitch(slot.name, slot.arg).err))
                 ELSE InvokeMethod(svc, callToolSwitch(slot.name, slot.arg).method,
                                   callToolSwitch(slot.name, slot.arg).arg))
    [] slot.entry = "resource" ->
         Started("resource", slot.name, slot.arg,
                 readResourceSwitch(slot.name).method, readResourceSwitch(slot.name).arg,
                 IF readResourceSwitch(slot.name).method = ""
                 THEN NotSent(Throw(readResourceSwitch(slot.name).err))
                 ELSE InvokeMethod(svc, readResourceSwitch(slot.name).method,
                                   readResourceSwitch(slot.name).arg))
    [] slot.entry = "listResources" ->
         Started("listResources", "", Undefined, getAvailableResourcesGate(svc), Undefined,
                 IF getAvailableResourcesGate(svc) = "" THEN NotSent(Return(Arr(<<>>)))
                 ELSE InvokeMethod(svc, getAvailableResourcesGate(svc), Undefined))

\* the request of a slot run alone to its end, the upstream answering with the
\* response the slot got
RunAlone(slot) ==
  IF StartedAlone(slot).st = "done" THEN StartedAlone(slot)
  ELSE Settled(StartedAlone(slot), slot.resp,
               makeRequestFinish(StartedAlone(slot).req, slot.resp))

\* C25: with requests interleaved, a request that waits is what it is when started
\* alone, a finished request has the result it has when run alone with the same
\* arguments and the same upstream response, and the client keeps the url and the
\* credential it was constructed with.
C25_NoInterference ==
  /\ \A s \in Slots :
       /\ reqs[s].st = "waiting" => reqs[s] = StartedAlone(reqs[s])
       /\ reqs[s].st = "done" => reqs[s] = RunAlone(reqs[s])
  /\ phase = "ready" =>
       /\ GetProp(svc, "baseUrl") = Str(GivenUrl)
       /\ GetProp(GetProp(svc, "config"), "apiKey") = Str(Credential)
       /\ svc = Construct(ctorArg, env).val

\* a Read resource that started while a domain method was waiting has finished
\* with the error of its own 404 while the method still waits
C25_Witness ==
  /\ reqs[1].st = "waiting" /\ reqs[1].entry = "method"
  /\ reqs[2].st = "done" /\ reqs[2].entry = "resource"
  /\ reqs[2].resp.status = 404
  /\ reqs[2].out.err.cls = "NotFoundError"
  /\ GetProp(reqs[2].out.err.ctx, "url") = Str("https://h/api/v1/dashboards/123")

====
